---- MODULE Spec2Model ----
(***************************************************************************)
(* Real-estate crawl of the GSCCCA record portal                           *)
(* (src/scrapers/realestate_index_scraper.py, class RealEstateIndexScraper)*)
(* modelled as a state machine: the stop flag set by the dashboard, the    *)
(* browser, the in-memory frames of discovery and extraction, and the      *)
(* files on disk (checkpoint CSV, output workbook and its .tmp sibling).   *)
(*                                                                         *)
(* Every step between two suspension points of the coroutine is one        *)
(* action; the stop flag is raised by another thread and a crash of the    *)
(* process can fall between any two steps.                                 *)
(*                                                                         *)
(* get_search_results names its files by the second it starts in, so every *)
(* run works on files of its own and no step reads or writes the files of  *)
(* an earlier run.  The disk is therefore kept as the files that the       *)
(* latest timestamp names.                                                 *)
(***************************************************************************)
EXTENDS Integers, Sequences, FiniteSets, TLC

\* ---------- bounds ----------------------------------------------------------
MaxUrl == 2        \* distinct document URLs the portal can list
MaxRadios == 2     \* result rows (entities) a search can return
MaxHrefs == 2      \* anchors on one detail page
MaxLienRows == 2   \* rows of the lien results table
MaxPages == 2      \* pages of one row's list of RP links
MaxLinks == 4      \* RP links on one list page
MaxLogins == 2     \* logins the portal accepts

URLs == 1..MaxUrl

VARIABLES
    stop_flag,    \* stop_scraper_flag['realestate']
    pc,           \* position of the coroutine
    caller,       \* who invoked process_result_urls: "scrape" or "direct"
    csv_path,     \* self.csv_path   (0: attribute not set, 1: the name with the latest timestamp)
    excel_path,   \* self.excel_path (0: attribute not set, 1: the name with the latest timestamp)
    csv_file,     \* disk: the checkpoint CSV with the latest timestamp
    xlsx_file,    \* disk: the workbook with the latest timestamp
    tmp_file,     \* disk: that workbook's ".tmp" sibling
    page_marker,  \* portal: the loaded document carries a CANCELLED/FORECLOSED marker
    radios,       \* len(radios) found on the results page
    entity_idx,   \* loop variable of get_search_results
    results_df,   \* discovery frame (in memory)
    df_urls,      \* extraction frame (in memory)
    idx,          \* loop variable of process_result_urls
    data,         \* dict returned by parse_realestate_data
    wb,           \* workbook being saved by _append_result_to_excel
    results,      \* self.results
    browser,      \* "none", "open", "closed"
    popup,        \* secondary viewer tab open
    log,          \* console lines that name a row of that checkpoint
    obs           \* what an observer of the run has noted

VARIABLES
    lien_stop_flag, \* stop_scraper_flag['lien']
    l_pc,           \* position of GSCCCAScraper.run_dynamic ("none": no lien crawl was started)
    l_browser,      \* the lien crawl's browser: "none", "open", "closed"
    total_rows,     \* rows of table.name_results found by get_search_results
    row_index,      \* loop variable of get_search_results
    l_caller,       \* who called process_rp_details: "gsr" (get_search_results) or "run" (run_dynamic)
    count,          \* loop counter of process_rp_details
    current_page,   \* page of the row's detail list
    rp_links,       \* len(rp_links) on the list page at hand
    rp_i,           \* loop variable i over the RP links of a page
    l_data,         \* dict built by parse_rp_detail
    l_popups,       \* secondary viewer tabs open in the lien crawl's browser
    l_results,      \* len(self.results) of the lien crawl
    l_xlsx,         \* disk: the LienResults workbook written by this run
    l_stopped       \* a poll of the lien crawl has seen its flag raised

reVars == <<stop_flag, pc, caller, csv_path, excel_path, csv_file,
            xlsx_file, tmp_file, page_marker, radios, entity_idx,
            results_df, df_urls, idx, data, wb, results, browser, popup, log, obs>>

lienRun == <<l_pc, l_browser, total_rows, row_index, l_caller, count, current_page,
             rp_links, rp_i, l_data, l_popups, l_results, l_xlsx, l_stopped>>

lienVars == <<lien_stop_flag, lienRun>>

VARIABLES
    login_pc,       \* position in the opening of scrape() / run_dynamic() ("none": not followed)
    crawler,        \* whose opening it is: "realestate" or "lien"
    state_file,     \* disk: cookies.json (0: absent, n: the storage state of login number n)
    session,        \* the login the browser context holds (0: none)
    valid,          \* portal: the logins it still honours
    logins,         \* portal: logins accepted so far
    logged_in       \* what the last already_logged_in() returned

loginVars == <<login_pc, crawler, state_file, session, valid, logins, logged_in>>

VARIABLES
    call,           \* the helper followed on its own ("none": not followed)
    given,          \* what the helper has been given
    got             \* what it has answered, or left on disk

helperVars == <<call, given, got>>

\* the state outside the real-estate crawl
elsewhere == <<lienVars, loginVars, helperVars>>

vars == <<reVars, elsewhere>>

\* ---------- files -----------------------------------------------------------
\* the headers of _append_result_to_excel that tell one row from another here:
\* the OCR fields stand together under "Name", the three Book/Page/Pages
\* columns and "Search Name" are the same for every row
Headers == <<"Name", "Entity Index", "Doc Index", "PDF Viewer URL", "Source URL", "View PDF">>

NoFile == [exists |-> FALSE, ok |-> TRUE, header |-> <<>>, rows |-> <<>>]
PartialFile == [exists |-> TRUE, ok |-> FALSE, header |-> <<>>, rows |-> <<>>]
Book(h, rows) == [exists |-> TRUE, ok |-> TRUE, header |-> h, rows |-> rows]
CsvFile(rows) == [exists |-> TRUE, ok |-> TRUE,
                  header |-> <<"url", "status", "entity_index", "doc_index">>,
                  rows |-> rows]

\* ---------- pure helpers ----------------------------------------------------
RECURSIVE SeqToSet(_)
SeqToSet(s) == IF s = <<>> THEN {} ELSE {Head(s)} \cup SeqToSet(Tail(s))

\* href -> absolute URL (urljoin on the plain or the JS-encoded relative link);
\* 0 stands for "no URL" (empty href, or fnSubmitThisForm without an argument)
ResolveHref(h) ==
    CASE h.kind = "empty" -> 0
      [] h.kind = "badjs" -> 0
      [] h.kind = "js"    -> h.target
      [] OTHER            -> h.target

RECURSIVE ResolveAll(_)
ResolveAll(hs) ==
    IF hs = <<>> THEN <<>>
    ELSE LET u == ResolveHref(Head(hs))
         IN  IF u = 0 THEN ResolveAll(Tail(hs)) ELSE <<u>> \o ResolveAll(Tail(hs))

\* list(dict.fromkeys(urls)): first occurrence kept, order preserved
RECURSIVE DedupeFrom(_, _)
DedupeFrom(s, seen) ==
    IF s = <<>> THEN <<>>
    ELSE IF Head(s) \in seen THEN DedupeFrom(Tail(s), seen)
         ELSE <<Head(s)>> \o DedupeFrom(Tail(s), seen \cup {Head(s)})
Dedupe(s) == DedupeFrom(s, {})

\* the tmp_df built for one entity
RECURSIVE EntityRowsFrom(_, _, _)
EntityRowsFrom(urls, e, d) ==
    IF urls = <<>> THEN <<>>
    ELSE <<[url |-> Head(urls), status |-> "", entity_index |-> e, doc_index |-> d]>>
         \o EntityRowsFrom(Tail(urls), e, d + 1)
EntityRows(urls, e) == EntityRowsFrom(urls, e, 1)

\* a drop_duplicates(keep="last")
RECURSIVE KeepLastFrom(_)
KeepLastFrom(rows) ==
    IF rows = <<>> THEN <<>>
    ELSE IF \E k \in 2..Len(rows) : rows[k].url = Head(rows).url
         THEN KeepLastFrom(Tail(rows))
         ELSE <<Head(rows)>> \o KeepLastFrom(Tail(rows))
DropDuplicatesKeepLast(rows) == KeepLastFrom(rows)

\* results_df.drop_duplicates(subset=["url"]) + reset_index
RECURSIVE DropDuplicatesFrom(_, _)
DropDuplicatesFrom(rows, seen) ==
    IF rows = <<>> THEN <<>>
    ELSE IF Head(rows).url \in seen THEN DropDuplicatesFrom(Tail(rows), seen)
         ELSE <<Head(rows)>> \o DropDuplicatesFrom(Tail(rows), seen \cup {Head(rows).url})
DropDuplicates(rows) == DropDuplicatesFrom(rows, {})

\* DataFrame.to_csv writes a missing value as an empty field;
\* pd.read_csv reads an empty field back as NaN
ToCsv(rows) ==
    [i \in 1..Len(rows) |->
        [rows[i] EXCEPT !.status = IF rows[i].status = "NaN" THEN "" ELSE rows[i].status]]
ReadCsv(file) ==
    [i \in 1..Len(file.rows) |->
        [file.rows[i] EXCEPT !.status = IF file.rows[i].status = "" THEN "NaN" ELSE file.rows[i].status]]

\* a comparison that forgets .lower()
IsDoneCaseSensitive(status) == status = "done"

\* str(status).strip().lower(), for the status cells met here
StripLower(status) ==
    CASE status \in {"Done", "done", " DONE "} -> "done"
      [] status = "NaN" -> "nan"
      [] status = "Failed" -> "failed"
      [] OTHER -> status

\* str(row.get("status", "")).strip().lower() == "done"
IsDone(status) == StripLower(status) = "done"


\* ---------- records ---------------------------------------------------------
NoData == [SourceURL |-> 0, EntityIndex |-> 0, DocIndex |-> 0,
           ViewerURL |-> "", PDF |-> "", Fields |-> ""]

\* the dict parse_realestate_data starts from (lines 587-592)
BaseData(row) == [SourceURL |-> row.url, EntityIndex |-> row.entity_index,
                  DocIndex |-> row.doc_index, ViewerURL |-> "", PDF |-> "", Fields |-> ""]

\* row_vals of _append_result_to_excel, in header order
RowVals(d) == <<d.Fields, d.EntityIndex, d.DocIndex, d.ViewerURL, d.SourceURL,
                IF d.PDF = "" THEN "" ELSE "=HYPERLINK">>

Obs0 == [stopped |-> "no", allDone |-> FALSE, navs |-> 0, csv0 |-> NoFile, xlsx0 |-> NoFile]

\* the anchors a detail page can carry
Hrefs == [kind : {"plain", "js"}, target : URLs]
            \cup {[kind |-> "empty", target |-> 0], [kind |-> "badjs", target |-> 0]}
RECURSIVE HrefSeqsOfLen(_)
HrefSeqsOfLen(n) ==
    IF n = 0 THEN {<<>>}
    ELSE {<<h>> \o s : h \in Hrefs, s \in HrefSeqsOfLen(n - 1)}
HrefSeqs == UNION {HrefSeqsOfLen(n) : n \in 0..MaxHrefs}

\* the file a path names
CsvAt(path) == IF path # 0 THEN csv_file ELSE NoFile
\* what a reader of a checkpoint file sees
AllDone(rows) == \A i \in 1..Len(rows) : rows[i].status = "Done"
FileUrls(file) == {file.rows[i].url : i \in 1..Len(file.rows)}
\* the Source URL column of a workbook
RecordUrls(book) == {book.rows[i][5] : i \in 1..Len(book.rows)}

\* ---------- initial state ---------------------------------------------------
\* RealEstateIndexScraper.__init__, and the locals no call has set yet
FreshMemory ==
    /\ csv_path' = 0
    /\ excel_path' = 0
    /\ page_marker' = FALSE
    /\ radios' = 0
    /\ entity_idx' = 0
    /\ results_df' = <<>>
    /\ df_urls' = <<>>
    /\ idx' = 0
    /\ data' = NoData
    /\ wb' = NoFile
    /\ results' = <<>>
    /\ popup' = FALSE
    /\ obs' = Obs0

\* the workbook save_to_excel writes: one row per dict of self.results
NoLienBook == [exists |-> FALSE, records |-> 0]
LienBook(n) == [exists |-> TRUE, records |-> n]

\* no GSCCCAScraper has been constructed
LienOff ==
    /\ lien_stop_flag = FALSE
    /\ l_pc = "none"
    /\ l_browser = "none"
    /\ total_rows = 0
    /\ row_index = 0
    /\ l_caller = "gsr"
    /\ count = 0
    /\ current_page = 1
    /\ rp_links = 0
    /\ rp_i = 0
    /\ l_data = "none"
    /\ l_popups = 0
    /\ l_results = 0
    /\ l_xlsx = NoLienBook
    /\ l_stopped = FALSE

\* no helper is followed on its own
HelpersOff ==
    /\ call = "none"
    /\ given = <<>>
    /\ got = <<>>

\* the opening of a crawl is not followed step by step
LoginOff ==
    /\ login_pc = "none"
    /\ crawler = "realestate"
    /\ state_file = 0
    /\ session = 0
    /\ valid = {}
    /\ logins = 0
    /\ logged_in = FALSE

\* no RealEstateIndexScraper is at work
RealEstateIdle ==
    /\ stop_flag = FALSE
    /\ pc = "idle"
    /\ caller = "scrape"
    /\ csv_path = 0
    /\ excel_path = 0
    /\ csv_file = NoFile
    /\ xlsx_file = NoFile
    /\ tmp_file = NoFile
    /\ page_marker = FALSE
    /\ radios = 0
    /\ entity_idx = 0
    /\ results_df = <<>>
    /\ df_urls = <<>>
    /\ idx = 0
    /\ data = NoData
    /\ wb = NoFile
    /\ results = <<>>
    /\ browser = "none"
    /\ popup = FALSE
    /\ log = {}
    /\ obs = Obs0

Init ==
    /\ RealEstateIdle
    /\ LienOff
    /\ LoginOff
    /\ HelpersOff

\* ---------- control layer ---------------------------------------------------
\* views.stop_scraper: stop_scraper_flag['realestate'] = True
StopRequest ==
    /\ ~stop_flag
    /\ stop_flag' = TRUE
    /\ UNCHANGED <<pc, caller, csv_path, excel_path, csv_file, xlsx_file,
                   tmp_file, page_marker, radios, entity_idx, results_df,
                   df_urls, idx, data, wb, results, browser, popup, log, obs>>
    /\ UNCHANGED elsewhere

\* the process dies between two steps: memory is lost, the disk stays
Crash ==
    /\ pc \notin {"idle", "ended", "crashed", "returned", "raised"}
    /\ pc' = "crashed"
    /\ stop_flag' = FALSE
    /\ browser' = "none"
    /\ FreshMemory
    /\ UNCHANGED <<caller, csv_file, xlsx_file, tmp_file, log>>
    /\ UNCHANGED elsewhere

\* ---------- scrape ----------------------------------------------------------
\* a scrape() without its finally clause, a stop_check that closes nothing
LeaveBrowserOpen(how) ==
    /\ pc' = IF caller = "scrape" THEN "ended" ELSE IF how = "return" THEN "returned" ELSE "raised"
    /\ browser' = browser

\* how a call made by scrape() or made directly comes back
\* (scrape: except + finally close the browser and the driver)
Leave(how) ==
    IF caller = "scrape"
    THEN /\ pc' = "ended"
         /\ browser' = IF browser = "none" THEN "none" ELSE "closed"
    ELSE /\ pc' = IF how = "return" THEN "returned" ELSE "raised"
         /\ browser' = IF how = "stop" THEN "closed" ELSE browser

\* RealEstateIndexScraper() + scrape(): launch the browser, open the page
Scrape ==
    /\ pc \in {"idle", "ended", "crashed"}
    /\ caller = "scrape"
    /\ pc' = "precheck"
    /\ browser' = "open"
    /\ FreshMemory
    /\ UNCHANGED <<stop_flag, caller, csv_file, xlsx_file, tmp_file, log>>
    /\ UNCHANGED elsewhere

\* scrape(): stop_check, session check, start_realestate_search
PreSearch ==
    /\ pc = "precheck"
    /\ IF stop_flag
       THEN /\ Leave("stop")
            /\ obs' = [obs EXCEPT !.stopped = "pre"]
       ELSE /\ \E ok \in BOOLEAN :
                 IF ok THEN pc' = "gsr_begin" /\ browser' = browser
                 ELSE Leave("raise")
            /\ obs' = obs
    /\ UNCHANGED <<stop_flag, caller, csv_path, excel_path, csv_file, xlsx_file,
                   tmp_file, page_marker, radios, entity_idx, results_df,
                   df_urls, idx, data, wb, results, popup, log>>
    /\ UNCHANGED elsewhere

\* ---------- get_search_results ----------------------------------------------
\* the paths get a new timestamp: no file of those names exists yet
GsrBegin ==
    /\ pc = "gsr_begin"
    /\ \E ok \in BOOLEAN :
         IF ok
         THEN /\ csv_path' = 1
              /\ excel_path' = 1
              /\ csv_file' = NoFile
              /\ xlsx_file' = NoFile
              /\ tmp_file' = NoFile
              /\ log' = {}
              /\ \E n \in 0..MaxRadios : radios' = n
              /\ entity_idx' = 1
              /\ pc' = "gsr_loop"
         ELSE /\ pc' = "pru_start"
              /\ UNCHANGED <<csv_path, excel_path, csv_file,
                             xlsx_file, tmp_file, log, radios, entity_idx>>
    /\ UNCHANGED <<stop_flag, caller, page_marker, results_df, df_urls, idx, data, wb,
                   results, browser, popup, obs>>
    /\ UNCHANGED elsewhere

\* one iteration of the loop over the result rows
GsrEntity ==
    /\ pc = "gsr_loop"
    /\ entity_idx <= radios
    /\ IF stop_flag
       THEN /\ browser' = "closed"
            /\ pc' = "pru_start"
            /\ obs' = [obs EXCEPT !.stopped = "discovery"]
            /\ radios' = 0
            /\ entity_idx' = 0
            /\ UNCHANGED results_df
       ELSE /\ \E outcome \in {"noradio", "error", "ok"}, hrefs \in HrefSeqs :
                 results_df' = IF outcome = "ok"
                               THEN results_df \o EntityRows(Dedupe(ResolveAll(hrefs)), entity_idx)
                               ELSE results_df
            /\ entity_idx' = entity_idx + 1
            /\ UNCHANGED <<browser, pc, obs, radios>>
    /\ UNCHANGED <<stop_flag, caller, csv_path, excel_path, csv_file, xlsx_file,
                   tmp_file, page_marker, df_urls, idx, data, wb,
                   results, popup, log>>
    /\ UNCHANGED elsewhere

\* after the loop: drop_duplicates, reset_index, to_csv
GsrSave ==
    /\ pc = "gsr_loop"
    /\ entity_idx > radios
    /\ csv_file' = CsvFile(ToCsv(DropDuplicates(results_df)))
    /\ pc' = "pru_start"
    /\ radios' = 0
    /\ entity_idx' = 0
    /\ UNCHANGED <<stop_flag, caller, csv_path, excel_path, xlsx_file, tmp_file,
                   page_marker, results_df, df_urls, idx, data, wb,
                   results, browser, popup, log, obs>>
    /\ UNCHANGED elsewhere

\* ---------- process_result_urls ---------------------------------------------
LogLine(ev) == [ev |-> ev, url |-> df_urls[idx].url]

\* entry: the CSV must exist and hold at least one row
PruStart ==
    /\ pc = "pru_start"
    /\ IF ~CsvAt(csv_path).exists \/ ReadCsv(CsvAt(csv_path)) = <<>>
       THEN /\ Leave("return")
            /\ UNCHANGED <<df_urls, idx, obs, results_df>>
       ELSE /\ df_urls' = ReadCsv(csv_file)
            /\ idx' = 1
            /\ pc' = "row"
            /\ browser' = browser
            /\ results_df' = <<>>
            /\ obs' = [obs EXCEPT !.allDone = AllDone(csv_file.rows),
                                  !.navs = 0,
                                  !.csv0 = csv_file,
                                  !.xlsx0 = xlsx_file]
    /\ UNCHANGED <<stop_flag, caller, csv_path, excel_path, csv_file, xlsx_file,
                   tmp_file, page_marker, radios, entity_idx, data, wb,
                   results, popup, log>>
    /\ UNCHANGED elsewhere

\* the loop is exhausted: process_result_urls returns
PruFinish ==
    /\ pc = "row"
    /\ idx > Len(df_urls)
    /\ Leave("return")
    /\ UNCHANGED <<stop_flag, caller, csv_path, excel_path, csv_file, xlsx_file,
                   tmp_file, page_marker, radios, entity_idx, results_df,
                   df_urls, idx, data, wb, results, popup, log, obs>>
    /\ UNCHANGED elsewhere

\* the except clause of the loop body: the row is left as it is, next row
NextRow(ev) ==
    /\ pc' = "row"
    /\ idx' = idx + 1
    /\ log' = log \cup {LogLine(ev)}
    /\ page_marker' = FALSE
    /\ data' = NoData
    /\ wb' = NoFile

\* one row of the loop: a Done row is passed over; for any other row
\* stop_check, then page.goto(url).  (No row has an empty url: discovery keeps
\* only hrefs that contain final.asp, and read_csv turns an empty cell into NaN.)
Row ==
    /\ pc = "row"
    /\ idx <= Len(df_urls)
    /\ IF IsDone(df_urls[idx].status)
       THEN /\ idx' = idx + 1
            /\ UNCHANGED <<pc, browser, obs, log, page_marker, data, wb>>
       ELSE IF stop_flag
       THEN /\ Leave("stop")
            /\ obs' = [obs EXCEPT !.stopped = "row"]
            /\ UNCHANGED <<idx, log, page_marker, data, wb>>
       ELSE /\ obs' = [obs EXCEPT !.navs = @ + 1]
            /\ browser' = browser
            /\ \E ok \in BOOLEAN :
                 IF ok /\ browser = "open"
                 THEN /\ pc' = "parse"
                      /\ page_marker' \in BOOLEAN
                      /\ UNCHANGED <<idx, log, data, wb>>
                 ELSE NextRow("error")
    /\ UNCHANGED <<stop_flag, caller, csv_path, excel_path, csv_file, xlsx_file,
                   tmp_file, radios, entity_idx, results_df, df_urls,
                   results, popup>>
    /\ UNCHANGED elsewhere

\* ---------- parse_realestate_data -------------------------------------------
\* a tab that is closed only at the end of the function body
PopupAfterPlainReturn(exit) == exit # "return"

\* finally: if popup and popup != self.page: await popup.close()
\* (whatever the exit: "exception", "early_return", "skip", "return")
PopupAfterExit(exit) == FALSE

\* from the first stop_check to the one before the screenshot
ParseBegin ==
    /\ pc = "parse"
    /\ IF stop_flag
       THEN /\ browser' = "closed"
            /\ obs' = [obs EXCEPT !.stopped = "parse"]
            /\ NextRow("error")
            /\ UNCHANGED popup
       ELSE /\ \E o \in {"content_raises", "noscript", "popup_raises", "nothumbs", "ready"} :
                 /\ data' = CASE o = "content_raises" -> BaseData(df_urls[idx])
                              [] o = "noscript" -> [BaseData(df_urls[idx]) EXCEPT !.ViewerURL = "ADD_TAG"]
                              [] OTHER -> [BaseData(df_urls[idx]) EXCEPT !.ViewerURL = "viewer"]
                 /\ popup' = CASE o = "ready" -> TRUE
                                [] o = "popup_raises" -> PopupAfterExit("exception")
                                [] o = "nothumbs" -> PopupAfterExit("early_return")
                                [] OTHER -> popup
                 /\ pc' = IF o = "ready" THEN "capture" ELSE "append"
                 /\ page_marker' = (page_marker /\ o = "ready")
            /\ UNCHANGED <<browser, obs, idx, log, wb>>
    /\ UNCHANGED <<stop_flag, caller, csv_path, excel_path, csv_file, xlsx_file,
                   tmp_file, radios, entity_idx, results_df, df_urls, results>>
    /\ UNCHANGED elsewhere

\* a record rebuilt from the OCR result alone
ReplaceByFields(d, f) == [NoData EXCEPT !.PDF = d.PDF, !.Fields = f]

\* data.update(fields): the keys of the OCR result ("Name" ... "Property Address")
\* are none of the keys parsed from the page
UpdateFields(d, f) == [d EXCEPT !.Fields = f]

\* what the capture and the OCR layer may answer for the loaded document:
\* no screenshot, a skip word, fields, fields that are all "", an exception
OcrOutcomes ==
    {"noshot", "fields", "ocr_empty", "ocr_raises"} \cup (IF page_marker THEN {"skip"} ELSE {})

\* stop_check, screenshot, PDF, OCR; the finally clause closes the popup
Capture ==
    /\ pc = "capture"
    /\ page_marker' = FALSE
    /\ IF stop_flag
       THEN /\ browser' = "closed"
            /\ popup' = FALSE
            /\ obs' = [obs EXCEPT !.stopped = "capture"]
            /\ pc' = "append"
            /\ UNCHANGED <<data, log>>
       ELSE /\ \E o \in OcrOutcomes :
                 /\ data' = CASE o = "noshot" -> data
                              [] o = "skip" -> NoData
                              [] o = "fields" -> UpdateFields([data EXCEPT !.PDF = "pdf"], "ocr")
                              [] o = "ocr_empty" -> UpdateFields([data EXCEPT !.PDF = "pdf"], "")
                              [] OTHER -> [data EXCEPT !.PDF = "pdf"]
                 /\ pc' = IF o = "skip" THEN "mark" ELSE "append"
                 /\ log' = IF o = "skip" THEN log \cup {LogLine("skipped")} ELSE log
                 /\ popup' = PopupAfterExit(CASE o = "noshot" -> "early_return"
                                              [] o = "skip" -> "skip"
                                              [] OTHER -> "return")
            /\ UNCHANGED <<browser, obs>>
    /\ UNCHANGED <<stop_flag, caller, csv_path, excel_path, csv_file, xlsx_file,
                   tmp_file, radios, entity_idx, results_df, df_urls, idx,
                   wb, results>>
    /\ UNCHANGED elsewhere

\* ---------- _append_result_to_excel -----------------------------------------
\* a workbook rebuilt from self.results instead of the file on disk
AppendedFromBuffer(file, d) ==
    Book(Headers, [i \in 1..(Len(results) + 1) |->
                     IF i <= Len(results) THEN RowVals(results[i]) ELSE RowVals(d)])

\* a row that is logged as saved but never reaches the workbook
AppendedNothing(file, d) ==
    IF file.exists THEN file ELSE Book(Headers, <<>>)

\* the workbook with one more row: the file on disk re-read, or a new one
Appended(file, d) ==
    IF file.exists
    THEN Book(file.header, Append(file.rows, RowVals(d)))
    ELSE Book(Headers, <<RowVals(d)>>)

\* wb.save(self.excel_path): the workbook written in place, no temporary file
AppendBeginInPlace ==
    /\ pc = "append"
    /\ results' = Append(results, data)
    /\ wb' = Appended(xlsx_file, data)
    /\ xlsx_file' = PartialFile
    /\ pc' = "append_save"
    /\ UNCHANGED <<stop_flag, caller, csv_path, excel_path, csv_file, tmp_file,
                   page_marker, radios, entity_idx, results_df, df_urls,
                   idx, log, data, browser, popup, obs>>
    /\ UNCHANGED elsewhere

\* self.results.append, load_workbook / Workbook, ws.append, wb.save begins
AppendBegin ==
    /\ pc = "append"
    /\ results' = Append(results, data)
    /\ IF xlsx_file.exists /\ ~xlsx_file.ok
       THEN /\ NextRow("error")
            /\ UNCHANGED tmp_file
       ELSE /\ wb' = Appended(xlsx_file, data)
            /\ tmp_file' = PartialFile
            /\ pc' = "append_save"
            /\ UNCHANGED <<idx, log, page_marker, data>>
    /\ UNCHANGED <<stop_flag, caller, csv_path, excel_path, csv_file, xlsx_file,
                   radios, entity_idx, results_df, df_urls, browser, popup, obs>>
    /\ UNCHANGED elsewhere

\* wb.save(tmp_path) completes, or raises
AppendSave ==
    /\ pc = "append_save"
    /\ \E ok \in BOOLEAN :
         IF ok
         THEN /\ tmp_file' = wb
              /\ pc' = "append_replace"
              /\ UNCHANGED <<idx, log, page_marker, data, wb>>
         ELSE /\ NextRow("error")
              /\ UNCHANGED tmp_file
    /\ UNCHANGED <<stop_flag, caller, csv_path, excel_path, csv_file, xlsx_file,
                   radios, entity_idx, results_df, df_urls, results,
                   browser, popup, obs>>
    /\ UNCHANGED elsewhere

\* os.replace(tmp_path, excel_path)
AppendReplace ==
    /\ pc = "append_replace"
    /\ xlsx_file' = tmp_file
    /\ tmp_file' = NoFile
    /\ log' = log \cup {LogLine("saved")}
    /\ pc' = "mark"
    /\ UNCHANGED <<stop_flag, caller, csv_path, excel_path, csv_file,
                   page_marker, radios, entity_idx, results_df, df_urls, idx, data, wb,
                   results, browser, popup, obs>>
    /\ UNCHANGED elsewhere

\* the status set in the frame, the frame never written back
MarkDoneInMemory ==
    /\ pc = "mark"
    /\ df_urls' = [df_urls EXCEPT ![idx].status = "Done"]
    /\ idx' = idx + 1
    /\ pc' = "row"
    /\ page_marker' = FALSE
    /\ data' = NoData
    /\ wb' = NoFile
    /\ UNCHANGED <<stop_flag, caller, csv_path, excel_path, csv_file, xlsx_file,
                   tmp_file, radios, entity_idx, results_df, results,
                   browser, popup, log, obs>>
    /\ UNCHANGED elsewhere

\* only the row at hand written back, not the frame
MarkDoneRowOnly ==
    /\ pc = "mark"
    /\ df_urls' = [df_urls EXCEPT ![idx].status = "Done"]
    /\ csv_file' = CsvFile(ToCsv(<<df_urls'[idx]>>))
    /\ idx' = idx + 1
    /\ pc' = "row"
    /\ page_marker' = FALSE
    /\ data' = NoData
    /\ wb' = NoFile
    /\ UNCHANGED <<stop_flag, caller, csv_path, excel_path, xlsx_file, tmp_file,
                   radios, entity_idx, results_df, results, browser,
                   popup, log, obs>>
    /\ UNCHANGED elsewhere

\* df_urls.at[idx, "status"] = "Done"; df_urls.to_csv
MarkDone ==
    /\ pc = "mark"
    /\ df_urls' = [df_urls EXCEPT ![idx].status = "Done"]
    /\ csv_file' = CsvFile(ToCsv(df_urls'))
    /\ idx' = idx + 1
    /\ pc' = "row"
    /\ page_marker' = FALSE
    /\ data' = NoData
    /\ wb' = NoFile
    /\ UNCHANGED <<stop_flag, caller, csv_path, excel_path, xlsx_file, tmp_file,
                   radios, entity_idx, results_df, results, browser,
                   popup, log, obs>>
    /\ UNCHANGED elsewhere

\* ---------- lien crawl: run_dynamic ------------------------------------------
\* if count == 4: break
PageLimit == 4
\* for i in range(3)
LinkLimit == 3

\* views.stop_scraper: stop_scraper_flag['lien'] = True
StopLien ==
    /\ ~lien_stop_flag
    /\ lien_stop_flag' = TRUE
    /\ UNCHANGED <<reVars, lienRun, loginVars, helperVars>>

\* a poll that reads the dictionary of flags as a whole
AnyFlag == lien_stop_flag \/ stop_flag

\* the poll of the lien crawl: stop_scraper_flag['lien']
LienFlag == lien_stop_flag

\* one of run_dynamic's stop branches: browser.close(), playwright.stop(), return
LienStopReturn ==
    /\ l_pc' = "ended"
    /\ l_browser' = "closed"
    /\ l_popups' = 0
    /\ l_stopped' = TRUE

\* GSCCCAScraper() + run_dynamic up to the first stop check: launch, cookies, login
RunDynamic ==
    /\ l_pc = "idle"
    /\ l_browser' = "open"
    /\ \E ok \in BOOLEAN : l_pc' = IF ok THEN "pre_stop" ELSE "ended"
    /\ UNCHANGED <<lien_stop_flag, total_rows, row_index, l_caller, count, current_page,
                   rp_links, rp_i, l_data, l_popups, l_results, l_xlsx, l_stopped>>
    /\ UNCHANGED <<reVars, loginVars, helperVars>>

\* stop check, check_session / login (result not used), start_search (errors logged)
LienPreSearch ==
    /\ l_pc = "pre_stop"
    /\ IF LienFlag
       THEN LienStopReturn
       ELSE /\ \E ok \in BOOLEAN : l_pc' = IF ok THEN "post_search" ELSE "ended"
            /\ UNCHANGED <<l_browser, l_popups, l_stopped>>
    /\ UNCHANGED <<lien_stop_flag, total_rows, row_index, l_caller, count, current_page,
                   rp_links, rp_i, l_data, l_results, l_xlsx>>
    /\ UNCHANGED <<reVars, loginVars, helperVars>>

\* stop check after start_search, then get_search_results up to its loop
LienGsrBegin ==
    /\ l_pc = "post_search"
    /\ IF LienFlag
       THEN /\ LienStopReturn
            /\ UNCHANGED <<total_rows, row_index>>
       ELSE /\ \E n \in 0..MaxLienRows : total_rows' = n
            /\ row_index' = 0
            /\ l_pc' = IF total_rows' = 0 THEN "final_stop" ELSE "gsr_row"
            /\ UNCHANGED <<l_browser, l_popups, l_stopped>>
    /\ UNCHANGED <<lien_stop_flag, l_caller, count, current_page,
                   rp_links, rp_i, l_data, l_results, l_xlsx>>
    /\ UNCHANGED <<reVars, loginVars, helperVars>>

\* entry of process_rp_details
EnterRpDetails(who) ==
    /\ l_caller' = who
    /\ count' = 0
    /\ current_page' = 1
    /\ rp_links' = 0
    /\ rp_i' = 0
    /\ l_pc' = "rp_page"

\* one row of table.name_results: stop check, radio, Display Details
LienGsrRow ==
    /\ l_pc = "gsr_row"
    /\ IF row_index >= total_rows
       THEN /\ l_pc' = "final_stop"
            /\ UNCHANGED <<row_index, l_caller, count, current_page, rp_links, rp_i, l_stopped>>
       ELSE IF LienFlag
       THEN /\ l_pc' = "final_stop"
            /\ l_stopped' = TRUE
            /\ UNCHANGED <<row_index, l_caller, count, current_page, rp_links, rp_i>>
       ELSE /\ \E o \in {"skip", "error", "ok"} :
                 CASE o = "skip"  -> /\ row_index' = row_index + 1
                                     /\ UNCHANGED <<l_pc, l_caller, count, current_page, rp_links, rp_i>>
                   [] o = "error" -> /\ l_pc' = "gsr_recover"
                                     /\ UNCHANGED <<row_index, l_caller, count, current_page, rp_links, rp_i>>
                   [] OTHER       -> /\ EnterRpDetails("gsr")
                                     /\ UNCHANGED row_index
            /\ UNCHANGED l_stopped
    /\ UNCHANGED <<lien_stop_flag, l_browser, total_rows, l_data, l_popups, l_results, l_xlsx>>
    /\ UNCHANGED <<reVars, loginVars, helperVars>>

\* the except clause of the row: back to the results by URL or by a new search,
\* or break
LienGsrRecover ==
    /\ l_pc = "gsr_recover"
    /\ \E ok \in BOOLEAN :
         IF ok THEN l_pc' = "gsr_row" /\ row_index' = row_index + 1
         ELSE l_pc' = "final_stop" /\ UNCHANGED row_index
    /\ UNCHANGED <<lien_stop_flag, l_browser, total_rows, l_caller, count, current_page,
                   rp_links, rp_i, l_data, l_popups, l_results, l_xlsx, l_stopped>>
    /\ UNCHANGED <<reVars, loginVars, helperVars>>

\* after process_rp_details: back to the results table (four methods), or break
LienGsrBack ==
    /\ l_pc = "gsr_back"
    /\ \E o \in {"back", "error", "lost"} :
         CASE o = "back"  -> l_pc' = "gsr_row" /\ row_index' = row_index + 1
           [] o = "error" -> l_pc' = "gsr_recover" /\ UNCHANGED row_index
           [] OTHER       -> l_pc' = "final_stop" /\ UNCHANGED row_index
    /\ UNCHANGED <<lien_stop_flag, l_browser, total_rows, l_caller, count, current_page,
                   rp_links, rp_i, l_data, l_popups, l_results, l_xlsx, l_stopped>>
    /\ UNCHANGED <<reVars, loginVars, helperVars>>

\* ---------- lien crawl: process_rp_details ------------------------------------
\* process_rp_details returns to its caller
LeaveRpDetails ==
    /\ l_pc' = IF l_caller = "gsr" THEN "gsr_back" ELSE "save"
    /\ count' = 0
    /\ current_page' = 1
    /\ rp_links' = 0
    /\ rp_i' = 0

\* head of the while loop: page counter, stop check, the RP links of the page
RpPage ==
    /\ l_pc = "rp_page"
    /\ IF count + 1 = PageLimit
       THEN /\ LeaveRpDetails
            /\ UNCHANGED l_stopped
       ELSE IF LienFlag
       THEN /\ LeaveRpDetails
            /\ l_stopped' = TRUE
       ELSE /\ \E o \in {"error", "visited", "list"}, n \in 0..MaxLinks :
                 IF o = "list" /\ n > 0
                 THEN /\ count' = count + 1
                      /\ rp_links' = n
                      /\ rp_i' = 0
                      /\ l_pc' = "rp_link"
                      /\ UNCHANGED current_page
                 ELSE LeaveRpDetails
            /\ UNCHANGED l_stopped
    /\ UNCHANGED <<lien_stop_flag, l_browser, total_rows, row_index, l_caller,
                   l_data, l_popups, l_results, l_xlsx>>
    /\ UNCHANGED <<reVars, loginVars, helperVars>>

\* head of the for loop: stop check, the i-th link, click (three attempts)
RpLink ==
    /\ l_pc = "rp_link"
    /\ IF rp_i >= LinkLimit
       THEN /\ l_pc' = "rp_next"
            /\ UNCHANGED <<rp_i, l_stopped>>
       ELSE IF LienFlag
       THEN /\ l_pc' = "rp_next"
            /\ l_stopped' = TRUE
            /\ UNCHANGED rp_i
       ELSE IF rp_i >= rp_links
       THEN /\ rp_i' = rp_i + 1
            /\ UNCHANGED <<l_pc, l_stopped>>
       ELSE /\ \E o \in {"click_raises", "not_navigated", "clicked"} :
                 CASE o = "click_raises"  -> l_pc' = "rp_recover" /\ UNCHANGED rp_i
                   [] o = "not_navigated" -> rp_i' = rp_i + 1 /\ UNCHANGED l_pc
                   [] OTHER               -> l_pc' = "rp_clicked" /\ UNCHANGED rp_i
            /\ UNCHANGED l_stopped
    /\ UNCHANGED <<lien_stop_flag, l_browser, total_rows, row_index, l_caller, count,
                   current_page, rp_links, l_data, l_popups, l_results, l_xlsx>>
    /\ UNCHANGED <<reVars, loginVars, helperVars>>

\* the detail page is loaded: stop check before parse_rp_detail
RpClicked ==
    /\ l_pc = "rp_clicked"
    /\ IF LienFlag
       THEN l_pc' = "rp_next" /\ l_stopped' = TRUE
       ELSE l_pc' = "rp_parse" /\ UNCHANGED l_stopped
    /\ UNCHANGED <<lien_stop_flag, l_browser, total_rows, row_index, l_caller, count,
                   current_page, rp_links, rp_i, l_data, l_popups, l_results, l_xlsx>>
    /\ UNCHANGED <<reVars, loginVars, helperVars>>

\* parse_rp_detail has returned d: if data: self.results.append(data)
RpReturn(d) ==
    /\ l_results' = IF d = "empty" THEN l_results ELSE l_results + 1
    /\ l_data' = "none"
    /\ l_pc' = "rp_back"

\* parse_rp_detail up to the viewer tab: page content, stop check, header fields
RpParse ==
    /\ l_pc = "rp_parse"
    /\ \E o \in {"raises", "no_viewer", "viewer"} :
         IF o = "raises"
         THEN /\ RpReturn("empty")
              /\ UNCHANGED <<l_popups, l_stopped>>
         ELSE IF LienFlag
         THEN /\ RpReturn("empty")
              /\ l_stopped' = TRUE
              /\ UNCHANGED l_popups
         ELSE IF o = "no_viewer"
         THEN /\ RpReturn("fields")
              /\ UNCHANGED <<l_popups, l_stopped>>
         ELSE /\ l_popups' = l_popups + 1
              /\ l_data' = "fields"
              /\ l_pc' = "rp_popup"
              /\ UNCHANGED <<l_results, l_stopped>>
    /\ UNCHANGED <<lien_stop_flag, l_browser, total_rows, row_index, l_caller, count,
                   current_page, rp_links, rp_i, l_xlsx>>
    /\ UNCHANGED <<reVars, loginVars, helperVars>>

\* the viewer tab: goto, stop check, zoom, screenshot, PDF, OCR, popup.close();
\* the except clause fills the fields in and leaves the tab as it is
RpPopup ==
    /\ l_pc = "rp_popup"
    /\ \E o \in {"goto_raises", "raises", "ok"} :
         IF o = "goto_raises"
         THEN UNCHANGED <<l_popups, l_stopped>>
         ELSE IF LienFlag
         THEN l_popups' = l_popups - 1 /\ l_stopped' = TRUE
         ELSE IF o = "raises"
         THEN UNCHANGED <<l_popups, l_stopped>>
         ELSE l_popups' = l_popups - 1 /\ UNCHANGED l_stopped
    /\ RpReturn(l_data)
    /\ UNCHANGED <<lien_stop_flag, l_browser, total_rows, row_index, l_caller, count,
                   current_page, rp_links, rp_i, l_xlsx>>
    /\ UNCHANGED <<reVars, loginVars, helperVars>>

\* back to the list page: three Back buttons, then page.go_back()
RpBack ==
    /\ l_pc = "rp_back"
    /\ \E ok \in BOOLEAN :
         IF ok THEN l_pc' = "rp_link" /\ rp_i' = rp_i + 1
         ELSE l_pc' = "rp_recover" /\ UNCHANGED rp_i
    /\ UNCHANGED <<lien_stop_flag, l_browser, total_rows, row_index, l_caller, count,
                   current_page, rp_links, l_data, l_popups, l_results, l_xlsx, l_stopped>>
    /\ UNCHANGED <<reVars, loginVars, helperVars>>

\* the except clause of one link: page.goto(current_url), or break
RpRecover ==
    /\ l_pc = "rp_recover"
    /\ \E ok \in BOOLEAN :
         IF ok THEN l_pc' = "rp_link" /\ rp_i' = rp_i + 1
         ELSE l_pc' = "rp_next" /\ UNCHANGED rp_i
    /\ UNCHANGED <<lien_stop_flag, l_browser, total_rows, row_index, l_caller, count,
                   current_page, rp_links, l_data, l_popups, l_results, l_xlsx, l_stopped>>
    /\ UNCHANGED <<reVars, loginVars, helperVars>>

\* after the for loop: stop check, the Next Page link
RpNext ==
    /\ l_pc = "rp_next"
    /\ IF LienFlag
       THEN /\ LeaveRpDetails
            /\ l_stopped' = TRUE
       ELSE /\ \E o \in {"none", "raises"} \cup (IF current_page < MaxPages THEN {"next"} ELSE {}) :
                 IF o = "next"
                 THEN /\ l_pc' = "rp_page"
                      /\ current_page' = current_page + 1
                      /\ UNCHANGED <<count, rp_links, rp_i>>
                 ELSE LeaveRpDetails
            /\ UNCHANGED l_stopped
    /\ UNCHANGED <<lien_stop_flag, l_browser, total_rows, row_index, l_caller,
                   l_data, l_popups, l_results, l_xlsx>>
    /\ UNCHANGED <<reVars, loginVars, helperVars>>

\* ---------- lien crawl: end of run_dynamic -------------------------------------
\* stop check after get_search_results, then process_rp_details once more
LienFinalStop ==
    /\ l_pc = "final_stop"
    /\ IF LienFlag
       THEN /\ LienStopReturn
            /\ UNCHANGED <<l_caller, count, current_page, rp_links, rp_i>>
       ELSE /\ EnterRpDetails("run")
            /\ UNCHANGED <<l_browser, l_popups, l_stopped>>
    /\ UNCHANGED <<lien_stop_flag, total_rows, row_index, l_data, l_results, l_xlsx>>
    /\ UNCHANGED <<reVars, loginVars, helperVars>>

\* save_to_excel: DataFrame(self.results) to a new LienResults_<ts>.xlsx
SavedBook(n, ok) ==
    IF n = 0 \/ ~ok THEN NoLienBook ELSE LienBook(n)

\* save_to_excel, browser.close(), playwright.stop()
LienSave ==
    /\ l_pc = "save"
    /\ \E ok \in BOOLEAN : l_xlsx' = SavedBook(l_results, ok)
    /\ l_browser' = "closed"
    /\ l_popups' = 0
    /\ l_pc' = "ended"
    /\ UNCHANGED <<lien_stop_flag, total_rows, row_index, l_caller, count, current_page,
                   rp_links, rp_i, l_data, l_results, l_stopped>>
    /\ UNCHANGED <<reVars, loginVars, helperVars>>

\* ---------- the opening of a crawl: cookies, session, login ---------------------
Crawlers == {"realestate", "lien"}

\* a login() that saves the storage state before the logged-in state is verified
CookiesAfterAnyLogin(o, n, dumped) ==
    IF o \in {"unverified", "verified"} /\ dumped THEN n ELSE state_file

\* login(): if await self.already_logged_in(): await self.dump_cookies()
\* (dump_cookies logs its own failure and leaves the file)
CookiesAfterLogin(o, n, dumped) ==
    IF o = "verified" /\ dumped THEN n ELSE state_file

\* login(): an exception before the form is sent, credentials rejected, a login
\* the portal accepts but the page check does not confirm, a login confirmed
LoginOutcomes ==
    {"raises", "rejected"} \cup (IF logins < MaxLogins THEN {"unverified", "verified"} ELSE {})

\* login(), its return value dropped by the caller
DoLogin(next) ==
    \E o \in LoginOutcomes, dumped \in BOOLEAN :
        LET accepted == o \in {"unverified", "verified"}
            n == logins + 1
        IN  /\ logins' = IF accepted THEN n ELSE logins
            /\ session' = IF accepted THEN n ELSE session
            /\ valid' = IF accepted THEN valid \cup {n} ELSE valid
            /\ logged_in' = (o = "verified")
            /\ state_file' = CookiesAfterLogin(o, n, dumped)
            /\ login_pc' = next

\* scrape() / run_dynamic(): browser context from cookies.json if it exists
Launch ==
    /\ login_pc \in {"idle", "crawl", "aborted", "stopped"}
    /\ \E c \in Crawlers, ok \in BOOLEAN :
         /\ crawler' = c
         /\ login_pc' = IF ~ok THEN "aborted"
                        ELSE IF state_file # 0 THEN "stop_check" ELSE "first_login"
    /\ session' = state_file
    /\ logged_in' = FALSE
    /\ UNCHANGED <<state_file, valid, logins>>
    /\ UNCHANGED <<reVars, lienVars, helperVars>>

\* no cookies.json: login page, check_session, login()
FirstLogin ==
    /\ login_pc = "first_login"
    /\ DoLogin("stop_check")
    /\ UNCHANGED crawler
    /\ UNCHANGED <<reVars, lienVars, helperVars>>

\* the stop check before the search (stop_check / stop_scraper_flag['lien'])
StopCheck ==
    /\ login_pc = "stop_check"
    /\ login_pc' = IF (crawler = "lien" /\ LienFlag) \/ (crawler = "realestate" /\ stop_flag)
                   THEN "stopped" ELSE "session"
    /\ UNCHANGED <<crawler, state_file, session, valid, logins, logged_in>>
    /\ UNCHANGED <<reVars, lienVars, helperVars>>

\* check_session(): "logout" in the page text; an exception counts as False
SessionCheck ==
    /\ login_pc = "session"
    /\ \E read \in BOOLEAN : logged_in' = (read /\ session \in valid)
    /\ login_pc' = IF logged_in' THEN "search" ELSE "relogin"
    /\ UNCHANGED <<crawler, state_file, session, valid, logins>>
    /\ UNCHANGED <<reVars, lienVars, helperVars>>

\* "Session invalid": login() once more, then on to the search
ReLogin ==
    /\ login_pc = "relogin"
    /\ DoLogin("search")
    /\ UNCHANGED crawler
    /\ UNCHANGED <<reVars, lienVars, helperVars>>

\* start_realestate_search() raises when the form cannot be filled;
\* start_search() logs the error and returns
StartSearch ==
    /\ login_pc = "search"
    /\ \E ok \in BOOLEAN :
         login_pc' = IF ok \/ crawler = "lien" THEN "crawl" ELSE "aborted"
    /\ UNCHANGED <<crawler, state_file, session, valid, logins, logged_in>>
    /\ UNCHANGED <<reVars, lienVars, helperVars>>

\* the portal ends a session
Expire ==
    /\ \E n \in valid : valid' = valid \ {n}
    /\ UNCHANGED <<login_pc, crawler, state_file, session, logins, logged_in>>
    /\ UNCHANGED <<reVars, lienVars, helperVars>>

\* ---------- specifications -------------------------------------------------
\* the crawl as the dashboard runs it: scrape() from start to end, again and again
Next ==
    \/ StopRequest
    \/ Crash
    \/ Scrape
    \/ PreSearch
    \/ GsrBegin
    \/ GsrEntity
    \/ GsrSave
    \/ PruStart
    \/ PruFinish
    \/ Row
    \/ ParseBegin
    \/ Capture
    \/ AppendBegin
    \/ AppendSave
    \/ AppendReplace
    \/ MarkDone

Spec == Init /\ [][Next]_vars

\* process_result_urls called on its own over a checkpoint that is already on
\* disk: rows as discovery writes them, any of them Done, and a workbook holding
\* the records of some of them
MaxRows == 2

RECURSIVE UrlSeqsOfLen(_)
UrlSeqsOfLen(n) ==
    IF n = 0 THEN {<<>>}
    ELSE {<<u>> \o s : u \in URLs, s \in UrlSeqsOfLen(n - 1)}

CheckpointRows ==
    {DropDuplicates(EntityRows(Dedupe(s), 1)) : s \in UNION {UrlSeqsOfLen(n) : n \in 0..MaxRows}}

RECURSIVE RecordsOf(_, _, _)
RecordsOf(rows, i, kept) ==
    IF i > Len(rows) THEN <<>>
    ELSE (IF i \in kept
          THEN <<RowVals([BaseData(rows[i]) EXCEPT !.ViewerURL = "ADD_TAG"])>>
          ELSE <<>>) \o RecordsOf(rows, i + 1, kept)

\* a crawler object about to run process_result_urls
DirectEntry ==
    /\ stop_flag = FALSE
    /\ pc = "pru_start"
    /\ caller = "direct"
    /\ csv_path = 1
    /\ excel_path = 1
    /\ tmp_file = NoFile
    /\ page_marker = FALSE
    /\ radios = 0
    /\ entity_idx = 0
    /\ results_df = <<>>
    /\ df_urls = <<>>
    /\ idx = 0
    /\ data = NoData
    /\ wb = NoFile
    /\ results = <<>>
    /\ browser = "open"
    /\ popup = FALSE
    /\ log = {}
    /\ obs = Obs0
    /\ LienOff
    /\ LoginOff
    /\ HelpersOff

InitDirect ==
    /\ DirectEntry
    /\ \E rows \in CheckpointRows :
         \E done \in SUBSET (1..Len(rows)), kept \in SUBSET (1..Len(rows)) :
            /\ csv_file = CsvFile([i \in 1..Len(rows) |->
                              [rows[i] EXCEPT !.status = IF i \in done THEN "Done" ELSE ""]])
            /\ xlsx_file = IF kept = {} THEN NoFile ELSE Book(Headers, RecordsOf(rows, 1, kept))

NextDirect ==
    \/ StopRequest
    \/ PruStart
    \/ PruFinish
    \/ Row
    \/ ParseBegin
    \/ Capture
    \/ AppendBegin
    \/ AppendSave
    \/ AppendReplace
    \/ MarkDone

SpecDirect == InitDirect /\ [][NextDirect]_vars

\* the lien crawl as the dashboard runs it: one run_dynamic, its flag raised at
\* any moment
InitLien ==
    /\ RealEstateIdle
    /\ lien_stop_flag = FALSE
    /\ l_pc = "idle"
    /\ l_browser = "none"
    /\ total_rows = 0
    /\ row_index = 0
    /\ l_caller = "gsr"
    /\ count = 0
    /\ current_page = 1
    /\ rp_links = 0
    /\ rp_i = 0
    /\ l_data = "none"
    /\ l_popups = 0
    /\ l_results = 0
    /\ l_xlsx = NoLienBook
    /\ l_stopped = FALSE
    /\ LoginOff
    /\ HelpersOff

NextLien ==
    \/ StopLien
    \/ RunDynamic
    \/ LienPreSearch
    \/ LienGsrBegin
    \/ LienGsrRow
    \/ LienGsrRecover
    \/ LienGsrBack
    \/ RpPage
    \/ RpLink
    \/ RpClicked
    \/ RpParse
    \/ RpPopup
    \/ RpBack
    \/ RpRecover
    \/ RpNext
    \/ LienFinalStop
    \/ LienSave

SpecLien == InitLien /\ [][NextLien]_vars

\* process_result_urls over a checkpoint whose status column was written by hand
Statuses == {"", "Done", "done", " DONE ", "Failed"}

InitEdited ==
    /\ DirectEntry
    /\ \E rows \in CheckpointRows :
         \E st \in [1..Len(rows) -> Statuses] :
            csv_file = CsvFile([i \in 1..Len(rows) |-> [rows[i] EXCEPT !.status = st[i]]])
    /\ xlsx_file = NoFile

SpecEdited == InitEdited /\ [][NextDirect]_vars

\* either crawl with both flags of stop_scraper_flag raised at any moment: a lien
\* crawl beside an idle real-estate crawler, or the extraction of a checkpoint
\* beside no lien crawl
InitFlags == InitLien \/ InitDirect

NextFlags ==
    \/ NextLien
    \/ NextDirect

SpecFlags == InitFlags /\ [][NextFlags]_vars

\* the opening of either crawl, run after run, over one cookies.json
InitLogin ==
    /\ RealEstateIdle
    /\ LienOff
    /\ login_pc = "idle"
    /\ crawler = "realestate"
    /\ state_file = 0
    /\ session = 0
    /\ valid = {}
    /\ logins = 0
    /\ logged_in = FALSE
    /\ HelpersOff

NextLogin ==
    \/ StopRequest
    \/ StopLien
    \/ Launch
    \/ FirstLogin
    \/ StopCheck
    \/ SessionCheck
    \/ ReLogin
    \/ StartSearch
    \/ Expire

SpecLogin == InitLogin /\ [][NextLogin]_vars

\* ---------- lien crawl: the PDF of a document ---------------------------------
MaxNameLen == 2
MaxPageNum == 2
MaxDocs == 2

\* [:40]
NameLimit == 40

\* the characters a debtor name is made of here
NameChars == {"A", "_", " ", ",", ";"}

RECURSIVE CharSeqsOfLen(_)
CharSeqsOfLen(n) ==
    IF n = 0 THEN {<<>>}
    ELSE {<<c>> \o s : c \in NameChars, s \in CharSeqsOfLen(n - 1)}

DebtorNames == UNION {CharSeqsOfLen(n) : n \in 1..MaxNameLen}

\* s.split(";")[0]
RECURSIVE SplitFirst(_)
SplitFirst(s) ==
    IF s = <<>> \/ Head(s) = ";" THEN <<>>
    ELSE <<Head(s)>> \o SplitFirst(Tail(s))

\* s[:n]
Truncate(s, n) == SubSeq(s, 1, IF Len(s) < n THEN Len(s) ELSE n)

\* s.replace(" ", "_").replace(",", "")
RECURSIVE Sanitize(_)
Sanitize(s) ==
    IF s = <<>> THEN <<>>
    ELSE (CASE Head(s) = " " -> <<"_">>
            [] Head(s) = "," -> <<>>
            [] OTHER -> <<Head(s)>>) \o Sanitize(Tail(s))

\* pdf_name = f"{debtor_name}_Page{page_num}.pdf", kept as the pair it is made of
PdfName(debtor, page_num) ==
    <<Sanitize(Truncate(SplitFirst(debtor), NameLimit)), page_num>>

\* open(pdf_path, "wb"): the file of that name now holds this document
WritePdf(files, name, doc) ==
    {f \in files : f[1] # name} \cup {<<name, doc>>}

\* parse_rp_detail saves the PDF of one more document of the run; documents are
\* told apart by their lien id, here their position in the run
SavePdf ==
    /\ call = "pdf_name"
    /\ Len(given) < MaxDocs
    /\ \E debtor \in DebtorNames, page_num \in 1..MaxPageNum :
         /\ given' = Append(given, [debtor |-> debtor, page |-> page_num])
         /\ got' = WritePdf(got, PdfName(debtor, page_num), Len(given) + 1)
    /\ UNCHANGED call
    /\ UNCHANGED <<reVars, lienVars, loginVars>>

InitPdf ==
    /\ RealEstateIdle
    /\ LienOff
    /\ LoginOff
    /\ call = "pdf_name"
    /\ given = <<>>
    /\ got = {}

NextPdf == SavePdf

SpecPdf == InitPdf /\ [][NextPdf]_vars

\* ---------- OCR: extract_amounts ----------------------------------------------
\* importance_keywords
ImportanceKeywords ==
    [kw \in {"TOTAL DUE", "TOTAL LIEN", "TOTAL AMOUNT", "TOTAL", "BALANCE DUE",
             "BALANCE", "PAID AMOUNT", "PAID", "DUE", "TAX"} |->
        CASE kw = "TOTAL DUE" -> 12
          [] kw \in {"TOTAL LIEN", "TOTAL AMOUNT", "TOTAL", "BALANCE DUE"} -> 10
          [] kw = "PAID AMOUNT" -> 8
          [] kw = "BALANCE" -> 6
          [] kw \in {"PAID", "DUE"} -> 4
          [] OTHER -> 2]

\* the lines of the text: a label followed by "$" and an amount (in cents)
LineLabels == {"TOTAL DUE", "TAX"}

\* kw in upper, for the labels above
KeywordIn(kw, label) ==
    \/ kw = label
    \/ label = "TOTAL DUE" /\ kw \in {"TOTAL", "DUE"}

\* the amounts printed on a line, in cents
Amounts == {5000, 9999, 12543, 100000, 2400000, 2420000, 3000000, 5000000}

RECURSIVE SumWeights(_, _)
SumWeights(kws, label) ==
    IF kws = {} THEN 0
    ELSE LET kw == CHOOSE k \in kws : TRUE IN
         (IF KeywordIn(kw, label) THEN ImportanceKeywords[kw] ELSE 0)
         + SumWeights(kws \ {kw}, label)

\* round(score, 3) of weight + value / 1000.0, in thousandths
Score(label, cents, boost) ==
    1000 * (SumWeights(DOMAIN ImportanceKeywords, label) + boost) + (cents + 50) \div 100

\* the candidates of the first loop: one per "$" amount, in line order
RECURSIVE DollarCandidates(_)
DollarCandidates(text) ==
    IF text = <<>> THEN <<>>
    ELSE <<[line |-> Head(text).label, numeric |-> Head(text).cents,
            score |-> Score(Head(text).label, Head(text).cents, 0)]>>
         \o DollarCandidates(Tail(text))

\* the fallback loop: the largest decimal of every line that contains TOTAL
RECURSIVE TotalCandidates(_)
TotalCandidates(text) ==
    IF text = <<>> THEN <<>>
    ELSE (IF KeywordIn("TOTAL", Head(text).label)
          THEN <<[line |-> Head(text).label, numeric |-> Head(text).cents,
                  score |-> Score(Head(text).label, Head(text).cents, 5)]>>
          ELSE <<>>) \o TotalCandidates(Tail(text))

\* sorted(candidates, key=score, reverse=True): stable, ties in their first order
RECURSIVE SortedByScore(_)
SortedByScore(cands) ==
    IF cands = <<>> THEN <<>>
    ELSE LET best == CHOOSE i \in 1..Len(cands) :
                        /\ \A j \in 1..Len(cands) : cands[j].score <= cands[i].score
                        /\ \A j \in 1..(i - 1) : cands[j].score < cands[i].score
         IN <<cands[best]>>
            \o SortedByScore(SubSeq(cands, 1, best - 1) \o SubSeq(cands, best + 1, Len(cands)))

\* extract_amounts(text)["top_by_score"]
TopByScore(text) ==
    LET first == DollarCandidates(text)
        has_big_dollar == \E i \in 1..Len(first) : first[i].numeric >= 10000
        candidates == IF has_big_dollar THEN first ELSE first \o TotalCandidates(text)
        candidates_sorted == SortedByScore(candidates)
    IN IF Len(candidates_sorted) >= 4 THEN SubSeq(candidates_sorted, 1, 3) ELSE candidates_sorted

\* the OCR texts of two lines: a TOTAL DUE line and a TAX line, in either order
TwoLineTexts ==
    {<<[label |-> a, cents |-> x], [label |-> b, cents |-> y]>> :
        a \in LineLabels, b \in LineLabels, x \in Amounts, y \in Amounts}

ExtractAmounts ==
    /\ call = "extract_amounts"
    /\ got = <<>>
    /\ got' = TopByScore(given)
    /\ UNCHANGED <<call, given>>
    /\ UNCHANGED <<reVars, lienVars, loginVars>>

InitAmounts ==
    /\ RealEstateIdle
    /\ LienOff
    /\ LoginOff
    /\ call = "extract_amounts"
    /\ given \in {t \in TwoLineTexts : t[1].label # t[2].label}
    /\ got = <<>>

NextAmounts == ExtractAmounts

SpecAmounts == InitAmounts /\ [][NextAmounts]_vars

\* ---------- OCR: extract_total_due --------------------------------------------
\* the keys of `patterns`; PAYMENT is the one that is subtracted
ChargeKeys == {"TAX", "PENALTY", "FIFA", "GED", "INTEREST", "DEMO LIEN"}

\* an OCR text, as the amount (in cents) printed after each label; -1: the text
\* has no such line
BillTexts ==
    [TAX : {-1, 500, 10000}, PENALTY : {-1, 500, 1000}, FIFA : {-1, 1000},
     GED : {-1}, INTEREST : {-1, 250}, DEMO_LIEN : {-1},
     PAYMENT : {-1, 500, 20000}, TOTAL_DUE : {-1, 12543}]

\* the amount found by the pattern of one key
AmountOf(text, key) ==
    CASE key = "TAX" -> text.TAX
      [] key = "PENALTY" -> text.PENALTY
      [] key = "FIFA" -> text.FIFA
      [] key = "GED" -> text.GED
      [] key = "INTEREST" -> text.INTEREST
      [] key = "DEMO LIEN" -> text.DEMO_LIEN
      [] key = "PAYMENT" -> text.PAYMENT
      [] OTHER -> text.TOTAL_DUE

RECURSIVE SumCharges(_, _)
SumCharges(text, keys) ==
    IF keys = {} THEN 0
    ELSE LET key == CHOOSE k \in keys : TRUE IN
         (IF AmountOf(text, key) >= 0 THEN AmountOf(text, key) ELSE 0)
         + SumCharges(text, keys \ {key})

\* f"{x:.2f}"
TwoDecimals(cents) ==
    [found |-> TRUE,
     minus |-> cents < 0,
     whole |-> (IF cents < 0 THEN -cents ELSE cents) \div 100,
     frac |-> (IF cents < 0 THEN -cents ELSE cents) % 100]

\* "Not Found" (scraper.py), "Not found" (lien_index_scraper.py)
NotFound == [found |-> FALSE, minus |-> FALSE, whole |-> 0, frac |-> 0]

\* scraper.py extract_total_due(text): the TOTAL DUE amount, else the total
\* calculated from the items, else (fuzzy match on the one-line text) nothing
TotalDueFromText(text) ==
    IF text.TOTAL_DUE >= 0 THEN TwoDecimals(text.TOTAL_DUE)
    ELSE IF \E key \in ChargeKeys \cup {"PAYMENT"} : AmountOf(text, key) >= 0
    THEN TwoDecimals(SumCharges(text, ChargeKeys)
                     - (IF text.PAYMENT >= 0 THEN text.PAYMENT ELSE 0))
    ELSE NotFound

\* lien_index_scraper.py extract_total_due(img): the amount on the line that
\* find_total_due_line returns, else "Not found"
TotalDueFromLine(text) ==
    IF text.TOTAL_DUE >= 0 THEN TwoDecimals(text.TOTAL_DUE) ELSE NotFound

ExtractTotalDueText ==
    /\ call = "scraper.extract_total_due"
    /\ got = <<>>
    /\ got' = <<TotalDueFromText(given)>>
    /\ UNCHANGED <<call, given>>
    /\ UNCHANGED <<reVars, lienVars, loginVars>>

ExtractTotalDueLien ==
    /\ call = "lien.extract_total_due"
    /\ got = <<>>
    /\ got' = <<TotalDueFromLine(given)>>
    /\ UNCHANGED <<call, given>>
    /\ UNCHANGED <<reVars, lienVars, loginVars>>

InitTotalDue ==
    /\ RealEstateIdle
    /\ LienOff
    /\ LoginOff
    /\ call \in {"scraper.extract_total_due", "lien.extract_total_due"}
    /\ given \in BillTexts
    /\ got = <<>>

NextTotalDue ==
    \/ ExtractTotalDueText
    \/ ExtractTotalDueLien

SpecTotalDue == InitTotalDue /\ [][NextTotalDue]_vars

\* ---------- OCR: extract_address_blocks, the dedupe step -----------------------
MaxBlocks == 2
MaxTextLen == 3

\* the characters of a cleaned block here: a letter in either case, a blank
TextChars == {"a", "A", " "}

RECURSIVE TextsOfLen(_)
TextsOfLen(n) ==
    IF n = 0 THEN {<<>>}
    ELSE {<<c>> \o s : c \in TextChars, s \in TextsOfLen(n - 1)}

\* what _trim_to_address_span returns: stripped, with single blanks
CleanedTexts ==
    {s \in UNION {TextsOfLen(n) : n \in 1..MaxTextLen} :
        /\ s[1] # " "
        /\ s[Len(s)] # " "
        /\ \A i \in 1..(Len(s) - 1) : ~(s[i] = " " /\ s[i + 1] = " ")}

RECURSIVE BlockSeqsOfLen(_)
BlockSeqsOfLen(n) ==
    IF n = 0 THEN {<<>>}
    ELSE {<<b>> \o s : b \in CleanedTexts, s \in BlockSeqsOfLen(n - 1)}

\* re.sub(r"\s+", " ", s)
RECURSIVE CollapseBlanks(_)
CollapseBlanks(s) ==
    IF s = <<>> THEN <<>>
    ELSE IF Head(s) = " " /\ Len(s) > 1 /\ s[2] = " " THEN CollapseBlanks(Tail(s))
    ELSE <<Head(s)>> \o CollapseBlanks(Tail(s))

\* .strip()
RECURSIVE Strip(_)
Strip(s) ==
    IF s = <<>> THEN <<>>
    ELSE IF Head(s) = " " THEN Strip(Tail(s))
    ELSE IF s[Len(s)] = " " THEN Strip(SubSeq(s, 1, Len(s) - 1))
    ELSE s

\* .lower()
Lower(s) == [i \in 1..Len(s) |-> IF s[i] = "A" THEN "a" ELSE s[i]]

\* a key that keeps the case
NormKeepingCase(cleaned) == Strip(CollapseBlanks(cleaned))

\* norm = re.sub(r"\s+", " ", cleaned).strip().lower()
Norm(cleaned) == Lower(Strip(CollapseBlanks(cleaned)))

\* if norm in seen: continue / seen.add(norm) / blocks.append(cleaned)
RECURSIVE DedupeBlocks(_, _)
DedupeBlocks(cleaned, seen) ==
    IF cleaned = <<>> THEN <<>>
    ELSE IF Norm(Head(cleaned)) \in seen THEN DedupeBlocks(Tail(cleaned), seen)
    ELSE <<Head(cleaned)>> \o DedupeBlocks(Tail(cleaned), seen \cup {Norm(Head(cleaned))})

ExtractAddressBlocks ==
    /\ call = "extract_address_blocks"
    /\ got = <<>>
    /\ got' = <<DedupeBlocks(given, {})>>
    /\ UNCHANGED <<call, given>>
    /\ UNCHANGED <<reVars, lienVars, loginVars>>

InitAddresses ==
    /\ RealEstateIdle
    /\ LienOff
    /\ LoginOff
    /\ call = "extract_address_blocks"
    /\ given \in UNION {BlockSeqsOfLen(n) : n \in 0..MaxBlocks}
    /\ got = <<>>

NextAddresses == ExtractAddressBlocks

SpecAddresses == InitAddresses /\ [][NextAddresses]_vars

\* ---------- lien crawl: the way back to the results table ---------------------
\* where the browser is: 0 the results table, k > 0 the k-th page of a row's
\* list of RP links (each one history entry further), -1 any other page
\* `got` holds row_index, the page, back_success and the methods tried for the
\* row; `given` holds total_rows

\* a row is taken: the table is waited for first; then Display Details and
\* process_rp_details, which returns on one of the list pages
BackRow ==
    /\ call = "back.row"
    /\ IF got.row >= given
       THEN /\ call' = "back.end"
            /\ UNCHANGED got
       ELSE IF got.page # 0
       THEN \* wait_for_selector("table.name_results") raises: enhanced recovery
            \E ok \in BOOLEAN :
               /\ call' = IF ok THEN "back.row" ELSE "back.end"
               /\ got' = [got EXCEPT !.row = IF ok THEN @ + 1 ELSE @,
                                     !.page = IF ok THEN 0 ELSE -1,
                                     !.skipped = @ \cup {got.row},
                                     !.tried = <<>>, !.back_success = FALSE]
       ELSE \E depth \in 1..MaxPages :
               /\ call' = "back.button"
               /\ got' = [got EXCEPT !.page = depth, !.tried = <<>>, !.back_success = FALSE]
    /\ UNCHANGED given
    /\ UNCHANGED <<reVars, lienVars, loginVars>>

\* Method 1: input[name='bBack'], taken here to lead to the results table
BackButton ==
    /\ call = "back.button"
    /\ \E o \in {"absent", "raises", "ok"} :
         got' = CASE o = "absent" -> got
                  [] o = "raises" -> [got EXCEPT !.tried = Append(@, "bBack")]
                  [] OTHER -> [got EXCEPT !.tried = Append(@, "bBack"),
                                          !.back_success = TRUE, !.page = 0]
    /\ call' = "back.history"
    /\ UNCHANGED given
    /\ UNCHANGED <<reVars, lienVars, loginVars>>

\* Method 2: page.go_back(), one history entry
BackHistory ==
    /\ call = "back.history"
    /\ IF got.back_success
       THEN UNCHANGED got
       ELSE \E ok \in BOOLEAN :
               got' = IF ok
                      THEN [got EXCEPT !.tried = Append(@, "go_back"),
                                       !.back_success = TRUE, !.page = got.page - 1]
                      ELSE [got EXCEPT !.tried = Append(@, "go_back")]
    /\ call' = "back.url"
    /\ UNCHANGED given
    /\ UNCHANGED <<reVars, lienVars, loginVars>>

\* Method 3: page.goto(search_results_url) and the table is waited for
BackUrl ==
    /\ call = "back.url"
    /\ IF got.back_success
       THEN UNCHANGED got
       ELSE \E ok \in BOOLEAN :
               got' = IF ok
                      THEN [got EXCEPT !.tried = Append(@, "goto"),
                                       !.back_success = TRUE, !.page = 0]
                      ELSE [got EXCEPT !.tried = Append(@, "goto"), !.page = -1]
    /\ call' = "back.search"
    /\ UNCHANGED given
    /\ UNCHANGED <<reVars, lienVars, loginVars>>

\* final fallback: the name search page, start_search, the table is waited for;
\* on an error break.  Then the table is waited for once more, a timeout being
\* only a warning, and the loop goes on with the next row
BackSearch ==
    /\ call = "back.search"
    /\ IF got.back_success
       THEN /\ got' = [got EXCEPT !.row = @ + 1]
            /\ call' = "back.row"
       ELSE \E ok \in BOOLEAN :
               IF ok
               THEN /\ got' = [got EXCEPT !.tried = Append(@, "search"), !.page = 0,
                                          !.row = @ + 1]
                    /\ call' = "back.row"
               ELSE /\ got' = [got EXCEPT !.tried = Append(@, "search"), !.page = -1]
                    /\ call' = "back.end"
    /\ UNCHANGED given
    /\ UNCHANGED <<reVars, lienVars, loginVars>>

InitBack ==
    /\ RealEstateIdle
    /\ LienOff
    /\ LoginOff
    /\ call = "back.row"
    /\ given \in 1..MaxLienRows
    /\ got = [row |-> 0, page |-> 0, back_success |-> FALSE, tried |-> <<>>, skipped |-> {}]

NextBack ==
    \/ BackRow
    \/ BackButton
    \/ BackHistory
    \/ BackUrl
    \/ BackSearch

SpecBack == InitBack /\ [][NextBack]_vars

\* ---------- OCR: the tiers of ensemble_ocr ------------------------------------
\* src/ocr/ocr_tax_extractor.py.  A text is a sequence of lines.  given is the
\* text of the full-image pass; got records the passes made and their lines.

MaxOcrLines == 2

RoiVariants == 6

ROI_TESS_PSMS == {6, 11, 12}

RoiPasses == RoiVariants * Cardinality(ROI_TESS_PSMS)

OcrLines == {"TOTAL", "total", "$5.00", "TOTAL 5.00", "DESCRIPTION", "noise"}

OcrTextsOfLen(n) == [1..n -> OcrLines]

OcrTexts == UNION {OcrTextsOfLen(n) : n \in 0..MaxOcrLines}

\* the full-image texts: every combination of present and missing markers
BaseTexts ==
    { <<>>, <<"noise">>, <<"TOTAL 5.00">>, <<"DESCRIPTION">>,
      <<"TOTAL", "$5.00">>, <<"$5.00", "TOTAL">>,
      <<"DESCRIPTION", "TOTAL 5.00">>, <<"total", "$5.00", "DESCRIPTION">> }

\* "TOTAL" in s.upper()
HasTotal(s) == s \in {"TOTAL", "total", "TOTAL 5.00"}

\* DECIMAL_RE
HasDecimal(s) == s \in {"$5.00", "TOTAL 5.00"}

\* MONEY_RE
HasMoney(s) == s = "$5.00"

\* DESCRIPTION_RE on one line
HasDescription(s) == s = "DESCRIPTION"

\* TOTAL_DECIMAL_RE.search on the lines joined by "\n": the word TOTAL and,
\* after it (the pattern lets "." match the line ends), an amount with two
\* decimals; the texts here are shorter than the 80 characters allowed between
TotalDecimalIn(lines) ==
    \E i \in 1..Len(lines) :
        /\ HasTotal(lines[i])
        /\ \/ lines[i] = "TOTAL 5.00"
           \/ \E j \in (i + 1)..Len(lines) : HasDecimal(lines[j])

\* DESCRIPTION_RE.search on the joined lines
DescriptionIn(lines) == \E i \in 1..Len(lines) : HasDescription(lines[i])

\* _keep_line
KeepLine(s, want_description) ==
    \/ HasTotal(s)
    \/ HasDecimal(s)
    \/ HasMoney(s)
    \/ (want_description /\ HasDescription(s))

\* re.sub(r"\s+", " ", s).strip().lower()
LineKey(s) ==
    CASE s \in {"TOTAL", "total"} -> "total"
      [] s = "TOTAL 5.00" -> "total 5.00"
      [] s = "DESCRIPTION" -> "description"
      [] OTHER -> s

\* the loop body over the lines of one pass: kept lines not yet seen are appended
RECURSIVE AppendKept(_, _, _)
AppendKept(out_lines, txt, want_description) ==
    IF txt = <<>> THEN out_lines
    ELSE LET s == Head(txt)
             seen == {LineKey(out_lines[i]) : i \in 1..Len(out_lines)}
         IN AppendKept(IF KeepLine(s, want_description) /\ LineKey(s) \notin seen
                       THEN Append(out_lines, s)
                       ELSE out_lines,
                       Tail(txt), want_description)

RoiRecoveredBoth(joined, want_description) ==
    /\ TotalDecimalIn(joined)
    /\ want_description /\ DescriptionIn(joined)

\* "If ROI Tesseract already recovered what we need, don't pay Paddle cost"
RoiRecovered(joined, want_description) ==
    \/ TotalDecimalIn(joined)
    \/ (want_description /\ DescriptionIn(joined))

\* ensemble_ocr up to the decision on the table region
OcrFull ==
    /\ call = "ocr.full"
    /\ LET missing_total == ~TotalDecimalIn(given)
           missing_desc == ~DescriptionIn(given)
       IN IF missing_total \/ missing_desc
          THEN /\ call' = "ocr.roi"
               /\ got' = [got EXCEPT !.want_description = missing_desc,
                                     !.ran = Append(@, "tesseract_full")]
          ELSE /\ call' = "ocr.end"
               /\ got' = [got EXCEPT !.ran = Append(@, "tesseract_full"),
                                     !.text = given]
    /\ UNCHANGED <<reVars, lienVars, loginVars, given>>

\* _recover_table_text: one Tesseract pass (one rendering, one psm) on the region
RoiTesseract ==
    /\ call = "ocr.roi"
    /\ got.pass < RoiPasses
    /\ \E txt \in OcrTexts :
           got' = [got EXCEPT
                     !.pass = @ + 1,
                     !.out_lines = AppendKept(@, txt, got.want_description),
                     !.ran = IF got.pass = 0 THEN Append(@, "tesseract_roi") ELSE @]
    /\ UNCHANGED <<reVars, lienVars, loginVars, call, given>>

\* _recover_table_text: after the Tesseract passes, return or go on to Paddle
RoiDecide ==
    /\ call = "ocr.roi"
    /\ got.pass = RoiPasses
    /\ IF RoiRecovered(got.out_lines, got.want_description)
       THEN /\ call' = "ocr.end"
            /\ got' = [got EXCEPT !.tess = got.out_lines,
                                  !.text = given \o got.out_lines]
       ELSE /\ call' = "ocr.paddle"
            /\ got' = [got EXCEPT !.tess = got.out_lines]
    /\ UNCHANGED <<reVars, lienVars, loginVars, given>>

\* _recover_table_text: the Paddle pass on the region and on its enlargement
RoiPaddle ==
    /\ call = "ocr.paddle"
    /\ \E lines \in OcrTexts :
           LET out == AppendKept(got.out_lines, lines, got.want_description)
           IN got' = [got EXCEPT !.out_lines = out,
                                 !.ran = Append(@, "paddle_roi"),
                                 !.text = given \o out]
    /\ call' = "ocr.end"
    /\ UNCHANGED <<reVars, lienVars, loginVars, given>>

InitOcr ==
    /\ RealEstateIdle
    /\ LienOff
    /\ LoginOff
    /\ call = "ocr.full"
    /\ given \in BaseTexts
    /\ got = [pass |-> 0, want_description |-> FALSE, out_lines |-> <<>>,
              tess |-> <<>>, ran |-> <<>>, text |-> <<>>]

NextOcr ==
    \/ OcrFull
    \/ RoiTesseract
    \/ RoiDecide
    \/ RoiPaddle

SpecOcr == InitOcr /\ [][NextOcr]_vars

\* ---------- the announcement interstitial -------------------------------------
\* A navigation followed by check_and_handle_announcement and by the step that
\* uses the page.  given is the sequence of navigations of a run; got holds the
\* one in progress (nav), the page the browser is on, what the navigation
\* landed on, the gotos issued for it and the steps run so far.

AnnouncementUrl == "Announcement.asp"

\* "Announcement" in current_url
IsAnnouncement(url) == url = AnnouncementUrl

\* the navigations, in the order of a real-estate run and, last, the one of
\* the lien start_search
Navigations ==
    <<[caller |-> "scrape", url |-> "homepage_url"],
      [caller |-> "start_realestate_search", url |-> "realestate_search_url"]>>
    \o [k \in 1..MaxUrl |-> [caller |-> "process_result_urls", url |-> "doc"]]
    \o <<[caller |-> "lien.start_search", url |-> "name_search_url"]>>

\* where the site goes once Continue is clicked: the site's choice
AfterContinue(url) == {url, "Default.asp"}

\* page.goto(url): the site answers with the page or with the interstitial
Goto ==
    /\ call = "nav.goto"
    /\ got.nav <= Len(given)
    /\ \E landed \in {given[got.nav].url, AnnouncementUrl} :
          got' = [got EXCEPT !.page = landed, !.landed = landed, !.gotos = @ + 1]
    /\ call' = "nav.check"
    /\ UNCHANGED given
    /\ UNCHANGED <<reVars, lienVars, loginVars>>

\* check_and_handle_announcement: select "dismiss", click Continue; an error is
\* printed and the method returns
CheckAndHandleAnnouncement ==
    /\ call = "nav.check"
    /\ IF IsAnnouncement(got.page)
       THEN \E o \in {"dismissed", "raises"} :
               IF o = "dismissed"
               THEN \E next \in AfterContinue(given[got.nav].url) :
                       got' = [got EXCEPT !.page = next]
               ELSE UNCHANGED got
       ELSE UNCHANGED got
    /\ call' = "nav.step"
    /\ UNCHANGED given
    /\ UNCHANGED <<reVars, lienVars, loginVars>>

\* the step after the call: parse_realestate_data, the form filling, ...
StepAfterNavigation ==
    /\ call = "nav.step"
    /\ got' = [got EXCEPT
                 !.steps = Append(@, [want |-> given[got.nav].url, page |-> got.page,
                                      landed |-> got.landed, gotos |-> got.gotos]),
                 !.nav = @ + 1,
                 !.gotos = 0]
    /\ call' = IF got.nav = Len(given) THEN "nav.end" ELSE "nav.goto"
    /\ UNCHANGED given
    /\ UNCHANGED <<reVars, lienVars, loginVars>>

InitAnnouncement ==
    /\ RealEstateIdle
    /\ LienOff
    /\ LoginOff
    /\ call = "nav.goto"
    /\ given = Navigations
    /\ got = [nav |-> 1, page |-> "about:blank", landed |-> "about:blank",
              gotos |-> 0, steps |-> <<>>]

NextAnnouncement ==
    \/ Goto
    \/ CheckAndHandleAnnouncement
    \/ StepAfterNavigation

SpecAnnouncement == InitAnnouncement /\ [][NextAnnouncement]_vars

\* ---------- extract_address_blocks: the walk above a state+ZIP line -----------
\* src/ocr/ocr_tax_extractor.py.  An OCR line is its text, the gap above it
\* and its height; its bbox follows from those of the lines before it.

MaxOcrRows == 4

RowTexts == {"", "12 Oak St", "County Tax Office", "Atlanta GA 30301"}

RowGaps == {5, 30}

RowHeights == {10}

OcrRow == [text : RowTexts, gap : RowGaps, h : RowHeights]

OcrRowsOfLen(n) == [1..n -> OcrRow]

\* bbox[1] and bbox[3] of line k
RECURSIVE BoxTop(_, _)
BoxTop(lines, k) ==
    IF k = 1 THEN lines[1].gap
    ELSE BoxTop(lines, k - 1) + lines[k - 1].h + lines[k].gap

BoxBottom(lines, k) == BoxTop(lines, k) + lines[k].h

\* _bbox_h
BboxH(lines, k) ==
    IF BoxBottom(lines, k) - BoxTop(lines, k) > 1
    THEN BoxBottom(lines, k) - BoxTop(lines, k) ELSE 1

\* state_zip_re.search(txt)
StateZip(txt) == txt = "Atlanta GA 30301"

\* skip_re.search
SkipWord(txt) == txt = "County Tax Office"

\* the while loop: picked is built from the anchor upwards
RECURSIVE WalkUp(_, _, _, _)
WalkUp(lines, picked, j, max_gap) ==
    IF j >= 1 /\ Len(picked) < 4
    THEN IF lines[j].text = "" THEN WalkUp(lines, picked, j - 1, max_gap)
         ELSE LET gap == BoxTop(lines, picked[Len(picked)]) - BoxBottom(lines, j)
              IN IF gap > max_gap THEN picked
                 ELSE WalkUp(lines, Append(picked, j), j - 1, max_gap)
    ELSE picked

\* sorted(picked) and the texts of the picked lines
BlockLines(lines, picked) ==
    [k \in 1..Len(picked) |-> lines[picked[Len(picked) + 1 - k]].text]

\* cleanup 1: the text is cut behind the first state+ZIP match
RECURSIVE CutAfterStateZip(_)
CutAfterStateZip(block) ==
    IF block = <<>> THEN <<>>
    ELSE IF StateZip(Head(block)) THEN <<Head(block)>>
    ELSE <<Head(block)>> \o CutAfterStateZip(Tail(block))

\* the for loop from line i on: the blocks appended, seen being the set of
\* blocks already appended
RECURSIVE BlocksFrom(_, _, _)
BlocksFrom(lines, i, seen) ==
    IF i > Len(lines) THEN <<>>
    ELSE IF ~StateZip(lines[i].text) THEN BlocksFrom(lines, i + 1, seen)
    ELSE LET max_gap == (5 * BboxH(lines, i)) \div 2
             block == BlockLines(lines, WalkUp(lines, <<i>>, i - 1, max_gap))
             cleaned == CutAfterStateZip(block)
         IN IF \E k \in 1..Len(block) : SkipWord(block[k])
            THEN BlocksFrom(lines, i + 1, seen)
            ELSE IF cleaned \in seen THEN BlocksFrom(lines, i + 1, seen)
            ELSE <<cleaned>> \o BlocksFrom(lines, i + 1, seen \cup {cleaned})

WalkAddressBlocks ==
    /\ call = "address_walk"
    /\ got = <<>>
    /\ got' = <<BlocksFrom(given, 1, {})>>
    /\ UNCHANGED <<call, given>>
    /\ UNCHANGED <<reVars, lienVars, loginVars>>

InitWalk ==
    /\ RealEstateIdle
    /\ LienOff
    /\ LoginOff
    /\ call = "address_walk"
    /\ given \in UNION {OcrRowsOfLen(n) : n \in 0..MaxOcrRows}
    /\ got = <<>>

NextWalk == WalkAddressBlocks

SpecWalk == InitWalk /\ [][NextWalk]_vars

\* ---------- process_result_urls run again over the same checkpoint ------------
MaxReruns == 1

\* a new crawler object is given the csv_path and excel_path of the run that
\* ended or died, and process_result_urls is called on it; got counts the calls
RunAgain ==
    /\ pc \in {"crashed", "returned", "raised"}
    /\ Len(got) < MaxReruns
    /\ got' = Append(got, "again")
    /\ pc' = "pru_start"
    /\ caller' = "direct"
    /\ csv_path' = 1
    /\ excel_path' = 1
    /\ browser' = "open"
    /\ page_marker' = FALSE
    /\ radios' = 0
    /\ entity_idx' = 0
    /\ results_df' = <<>>
    /\ df_urls' = <<>>
    /\ idx' = 0
    /\ data' = NoData
    /\ wb' = NoFile
    /\ results' = <<>>
    /\ popup' = FALSE
    /\ obs' = Obs0
    /\ UNCHANGED <<stop_flag, csv_file, xlsx_file, tmp_file, log>>
    /\ UNCHANGED <<lienVars, loginVars, call, given>>

\* the checkpoint as discovery leaves it: every row pending, no workbook yet
InitRerun ==
    /\ DirectEntry
    /\ \E rows \in CheckpointRows :
          csv_file = CsvFile([i \in 1..Len(rows) |-> [rows[i] EXCEPT !.status = ""]])
    /\ xlsx_file = NoFile

NextRerun ==
    \/ NextDirect
    \/ Crash
    \/ RunAgain

SpecRerun == InitRerun /\ [][NextRerun]_vars

\* ---------- real-estate run: the calls that tear the browser down -------------
\* The run after its launch, followed for browser.close(), playwright.stop() and
\* the tab operations issued once the browser is closed.  given holds the
\* entities found and the rows of the checkpoint; got holds the flag, the
\* counts of the calls, and the entity or row at hand.

\* stop_check with the flag raised: browser.close(), playwright.stop(), raise
StopCheckCloses(g) ==
    [g EXCEPT !.browser = "closed", !.closes = @ + 1, !.stops = @ + 1]

\* views.stop_scraper during the run
TeardownStopRequest ==
    /\ call \in {"td.pre", "td.gsr", "td.row", "td.parse", "td.capture"}
    /\ ~got.flag
    /\ got' = [got EXCEPT !.flag = TRUE]
    /\ UNCHANGED <<call, given>>
    /\ UNCHANGED <<reVars, lienVars, loginVars>>

\* scrape: stop_check before the session check and the search
TeardownPre ==
    /\ call = "td.pre"
    /\ IF got.flag
       THEN /\ got' = StopCheckCloses(got)
            /\ call' = "td.finally"
       ELSE /\ got' = [got EXCEPT !.at = 1]
            /\ call' = "td.gsr"
    /\ UNCHANGED given
    /\ UNCHANGED <<reVars, lienVars, loginVars>>

\* get_search_results: stop_check at the head of the entity loop; its error is
\* caught by the outer except, no checkpoint is written and
\* process_result_urls returns at once
TeardownEntity ==
    /\ call = "td.gsr"
    /\ IF got.at > given.radios
       THEN /\ got' = [got EXCEPT !.at = 1]
            /\ call' = "td.row"
       ELSE IF got.flag
       THEN /\ got' = StopCheckCloses(got)
            /\ call' = "td.finally"
       ELSE /\ got' = [got EXCEPT !.at = @ + 1]
            /\ call' = "td.gsr"
    /\ UNCHANGED given
    /\ UNCHANGED <<reVars, lienVars, loginVars>>

\* process_result_urls: stop_check before the row's page.goto; its error
\* leaves the loop and reaches the except clause of scrape
TeardownRow ==
    /\ call = "td.row"
    /\ IF got.at > given.rows
       THEN /\ call' = "td.finally"
            /\ UNCHANGED got
       ELSE IF got.flag
       THEN /\ got' = StopCheckCloses(got)
            /\ call' = "td.finally"
       ELSE /\ got' = [got EXCEPT !.after = IF got.browser = "closed" THEN @ + 1 ELSE @]
            /\ call' = "td.parse"
    /\ UNCHANGED given
    /\ UNCHANGED <<reVars, lienVars, loginVars>>

\* parse_realestate_data: the stop_check outside the try block; its error is
\* caught by the except clause of the row loop, which goes to the next row
TeardownParse ==
    /\ call = "td.parse"
    /\ IF got.flag
       THEN /\ got' = [StopCheckCloses(got) EXCEPT !.at = @ + 1]
            /\ call' = "td.row"
       ELSE \E viewer \in BOOLEAN :
               IF viewer
               THEN /\ got' = [got EXCEPT !.popup = TRUE]
                    /\ call' = "td.capture"
               ELSE /\ got' = [got EXCEPT !.at = @ + 1]
                    /\ call' = "td.row"
    /\ UNCHANGED given
    /\ UNCHANGED <<reVars, lienVars, loginVars>>

\* parse_realestate_data: the stop_check before the screenshot; its error is
\* caught by the function's own except clause; the finally clause closes the
\* viewer tab; the record is appended and the loop goes to the next row
TeardownCapture ==
    /\ call = "td.capture"
    /\ LET g == IF got.flag THEN StopCheckCloses(got) ELSE got
       IN got' = [g EXCEPT !.after = IF g.browser = "closed" THEN @ + 1 ELSE @,
                           !.popup = FALSE,
                           !.at = @ + 1]
    /\ call' = "td.row"
    /\ UNCHANGED given
    /\ UNCHANGED <<reVars, lienVars, loginVars>>

\* scrape, finally: if self.browser: browser.close(); if self.playwright: stop()
TeardownFinally ==
    /\ call = "td.finally"
    /\ got' = [got EXCEPT !.browser = "closed", !.closes = @ + 1, !.stops = @ + 1]
    /\ call' = "td.end"
    /\ UNCHANGED given
    /\ UNCHANGED <<reVars, lienVars, loginVars>>

InitTeardown ==
    /\ RealEstateIdle
    /\ LienOff
    /\ LoginOff
    /\ call = "td.pre"
    /\ given \in [radios : 0..MaxRadios, rows : 0..MaxUrl]
    /\ got = [flag |-> FALSE, browser |-> "open", popup |-> FALSE, closes |-> 0,
              stops |-> 0, after |-> 0, at |-> 0]

NextTeardown ==
    \/ TeardownStopRequest
    \/ TeardownPre
    \/ TeardownEntity
    \/ TeardownRow
    \/ TeardownParse
    \/ TeardownCapture
    \/ TeardownFinally

SpecTeardown == InitTeardown /\ [][NextTeardown]_vars

\* ---------- lien extractor: Address and Zipcode from the OCR text --------------
\* src/scrapers/lien_index_scraper.py.  given is the OCR text as its lines; an
\* address is the sequence of its parts (street, city line), "" being <<>>.

LienTextLines ==
    {"", "12 Oak St", "John Smith", "County Tax Office", "SCOTT",
     "Atlanta, GA 30301", "Macon, GA 31201"}

LienTexts == UNION {[1..n -> LienTextLines] : n \in 0..MaxOcrRows}

\* the 'City, ST 12345' pattern
CityStateZip(ln) == ln \in {"Atlanta, GA 30301", "Macon, GA 31201"}

\* re.search(r'(\d{5})$', city_state_zip)
ZipOf(ln) ==
    CASE ln = "Atlanta, GA 30301" -> "30301"
      [] ln = "Macon, GA 31201" -> "31201"
      [] OTHER -> ""

\* County|Tax|Commissioner|Recorded|...: a line that is passed over
HeaderLine(prev) == prev = "County Tax Office"

\* a leading number, a street word or any digit
StreetLike(prev) == prev \in {"12 Oak St", "Atlanta, GA 30301", "Macon, GA 31201"}

\* ^(Grant|GORDON|GORDON COUNTY|SCOTT|LIEN|LIEN Bk|TOTAL|PAYMENT)
NameStart(prev) == prev = "SCOTT"

\* lines = [ln.strip() for ln in text.splitlines() if ln.strip()]
NonBlank(text) == SelectSeq(text, LAMBDA ln : ln # "")

\* for j in range(1, 4): the street line above line `at` (idx), "" if none
RECURSIVE StreetAbove(_, _, _)
StreetAbove(lines, at, j) ==
    IF j > 3 \/ at - j < 1 THEN ""
    ELSE LET prev == lines[at - j]
         IN IF HeaderLine(prev) THEN StreetAbove(lines, at, j + 1)
            ELSE IF StreetLike(prev) THEN prev
            ELSE IF ~NameStart(prev) THEN prev
            ELSE StreetAbove(lines, at, j + 1)

\* the loop over the lines from `at` (idx) on, addresses being those found so far
RECURSIVE AddressesFrom(_, _, _, _)
AddressesFrom(lines, at, addresses, max_addresses) ==
    IF at > Len(lines) \/ Len(addresses) >= max_addresses THEN addresses
    ELSE IF CityStateZip(lines[at])
    THEN LET street == StreetAbove(lines, at, 1)
             full_address == IF street # "" THEN <<street, lines[at]>> ELSE <<lines[at]>>
         IN AddressesFrom(lines, at + 1,
                          Append(addresses, [address |-> full_address,
                                             zipcode |-> ZipOf(lines[at])]),
                          max_addresses)
    ELSE AddressesFrom(lines, at + 1, addresses, max_addresses)

\* the list padded to max_addresses entries
ExtractAddressesFromOcr(text, max_addresses) ==
    LET found == AddressesFrom(NonBlank(text), 1, <<>>, max_addresses)
    IN [k \in 1..max_addresses |->
          IF k <= Len(found) THEN found[k] ELSE [address |-> <<>>, zipcode |-> ""]]

\* data["Address"] = addr_list[1]["address"]; data["Zipcode"] = addr_list[1]["zipcode"]
\* (Python counts from 0: the second entry)
RecordAddress(addr_list) == addr_list[2]

\* parse_rp_detail: the address fields of the record
ParseRpAddress ==
    /\ call = "lien_address"
    /\ got = <<>>
    /\ LET addr_list == ExtractAddressesFromOcr(given, 2)
       IN got' = <<[Address |-> RecordAddress(addr_list).address,
                    Zipcode |-> RecordAddress(addr_list).zipcode]>>
    /\ UNCHANGED <<call, given>>
    /\ UNCHANGED <<reVars, lienVars, loginVars>>

InitLienAddress ==
    /\ RealEstateIdle
    /\ LienOff
    /\ LoginOff
    /\ call = "lien_address"
    /\ given \in LienTexts
    /\ got = <<>>

NextLienAddress == ParseRpAddress

SpecLienAddress == InitLienAddress /\ [][NextLienAddress]_vars

\* ---------- claims ---------------------------------------------------------

\* C1: if the stop flag is raised part-way through discovery, then once the run
\* has ended the checkpoint CSV holds exactly the rows discovered so far, all
\* pending, and nothing was written to the output.
CancelledDiscoveryKeepsCheckpoint ==
    (pc = "ended" /\ obs.stopped = "discovery" /\ results_df # <<>>) =>
        /\ CsvAt(csv_path).exists
        /\ CsvAt(csv_path).rows = ToCsv(DropDuplicates(results_df))
        /\ \A i \in 1..Len(CsvAt(csv_path).rows) : CsvAt(csv_path).rows[i].status # "Done"
        /\ xlsx_file = NoFile
        /\ tmp_file = NoFile

\* C2: the checkpoint on disk follows every discovery step and every status
\* flip: between two result rows every discovered URL is in the file, and
\* between two checkpoint rows the file equals the frame.
CheckpointWrittenAfterEveryStep ==
    /\ pc = "gsr_loop" => \A i \in 1..Len(results_df) : results_df[i].url \in FileUrls(csv_file)
    /\ pc = "row" => csv_file.rows = ToCsv(df_urls)

\* C3: every checkpoint row with status Done has a record in the workbook or a
\* logged skip for its URL.
DoneRowsAccountedFor ==
    \A i \in 1..Len(csv_file.rows) :
        csv_file.rows[i].status = "Done" =>
            \/ xlsx_file.ok /\ csv_file.rows[i].url \in RecordUrls(xlsx_file)
            \/ [ev |-> "skipped", url |-> csv_file.rows[i].url] \in log

DoneByRecordAndBySkip ==
    /\ Len(csv_file.rows) = 2
    /\ AllDone(csv_file.rows)
    /\ Cardinality(RecordUrls(xlsx_file)) = 1
    /\ \E l \in log : l.ev = "skipped" /\ l.url \notin RecordUrls(xlsx_file)

\* C4: while a checkpoint file exists no step removes or reorders its rows or
\* changes a row's URL or indices, a status Done stays Done, and the file
\* written at the end of discovery holds every discovered URL.
CheckpointMonotone ==
    [][/\ (pc # "gsr_begin" /\ csv_file.exists) =>
             /\ csv_file'.exists
             /\ Len(csv_file'.rows) = Len(csv_file.rows)
             /\ \A i \in 1..Len(csv_file.rows) :
                   /\ csv_file'.rows[i] \in {csv_file.rows[i], [csv_file.rows[i] EXCEPT !.status = "Done"]}
       /\ (pc = "gsr_loop" /\ pc' = "pru_start" /\ csv_file'.exists) =>
             \A i \in 1..Len(results_df) : results_df[i].url \in FileUrls(csv_file')
      ]_vars

SecondRowDoneAfterFirst ==
    /\ Len(csv_file.rows) = 2
    /\ AllDone(csv_file.rows)
    /\ pc = "row"

\* C5: process_result_urls over a checkpoint whose rows are all Done navigates
\* nowhere, appends nothing and leaves the checkpoint file as it was.
AllDoneRerunIsNoOp ==
    obs.allDone =>
        /\ obs.navs = 0
        /\ xlsx_file = obs.xlsx0
        /\ csv_file = obs.csv0
        /\ tmp_file = NoFile
        /\ results = <<>>

AllDoneRerunReturned ==
    /\ pc = "returned"
    /\ obs.allDone
    /\ Len(df_urls) = 2
    /\ idx = 3

\* C6: a run that ends without a stop request and without a fatal error has
\* brought every row of its checkpoint to Done.
UncancelledRunFinishesEveryRow ==
    (pc = "ended" /\ ~stop_flag /\ obs.stopped = "no" /\ CsvAt(csv_path).exists)
        => AllDone(csv_file.rows)

\* C7: a crawl started again after a partial run continues from the persisted
\* checkpoint and output: when get_search_results sets its paths while a
\* checkpoint with pending rows is on disk, the paths name that checkpoint and
\* that workbook.
RestartContinuesFromCheckpoint ==
    [][(pc = "gsr_begin" /\ csv_path' # 0 /\ csv_file.exists /\ ~AllDone(csv_file.rows)) =>
          /\ csv_file' = csv_file
          /\ xlsx_file' = xlsx_file
      ]_vars

AppendAddsOneRow ==
    [][(pc # "gsr_begin" /\ xlsx_file' # xlsx_file) =>
          /\ xlsx_file'.ok
          /\ xlsx_file'.header = Headers
          /\ xlsx_file.exists => xlsx_file.header = Headers
          /\ Len(xlsx_file'.rows) = Len(xlsx_file.rows) + 1
          /\ SubSeq(xlsx_file'.rows, 1, Len(xlsx_file.rows)) = xlsx_file.rows
          /\ xlsx_file'.rows[Len(xlsx_file'.rows)] = RowVals(data)
      ]_vars

SecondRowAppended ==
    /\ pc = "mark"
    /\ Len(xlsx_file.rows) = 2

\* C10: the file at excel_path is absent or a complete workbook with its header,
\* and holds the row of every append that was logged as saved, also after a
\* crash in the middle of an append.
OutputAlwaysOpenable ==
    /\ xlsx_file.ok
    /\ xlsx_file.exists => xlsx_file.header = Headers
    /\ \A l \in log : l.ev = "saved" => l.url \in RecordUrls(xlsx_file)

CrashedInMidAppend ==
    /\ pc = "crashed"
    /\ tmp_file = PartialFile
    /\ xlsx_file.exists
    /\ \E l \in log : l.ev = "saved"

\* C11: when run_dynamic has ended, every record that parse_rp_detail returned
\* and process_rp_details kept is a row of the LienResults workbook.
LienRecordsAreSaved ==
    (l_pc = "ended" /\ l_results > 0) =>
        (l_xlsx.exists /\ l_xlsx.records = l_results)

\* C12: once a poll of the real-estate run has seen the flag, no document
\* page is navigated to, no secondary tab and no browser stays open, the run
\* ends with the browser closed, and the workbook keeps its rows and the
\* checkpoint its Done statuses.
CancelUnwindsInOrder ==
    [][obs'.stopped # "no" =>
          /\ pc' # "parse"
          /\ obs.stopped # "no" => obs'.navs <= obs.navs
          /\ browser' # "open"
          /\ ~popup'
          /\ pc' = "ended" => browser' = "closed"
          /\ xlsx_file.exists =>
                /\ xlsx_file'.ok
                /\ Len(xlsx_file'.rows) >= Len(xlsx_file.rows)
                /\ SubSeq(xlsx_file'.rows, 1, Len(xlsx_file.rows)) = xlsx_file.rows
          /\ \A i \in 1..Len(csv_file.rows) :
                csv_file.rows[i].status = "Done" =>
                    /\ Len(csv_file'.rows) >= i
                    /\ csv_file'.rows[i] = csv_file.rows[i]
      ]_vars

CancelledWithWorkSaved ==
    /\ pc = "ended"
    /\ obs.stopped = "row"
    /\ browser = "closed"
    /\ Len(xlsx_file.rows) >= 1
    /\ Len(csv_file.rows) = 2
    /\ csv_file.rows[1].status = "Done"
    /\ csv_file.rows[2].status # "Done"

\* C13: the search is submitted and the crawl entered only when the last
\* check of the logged-in state (check_session or login) confirmed it.
UnverifiedLoginAbortsRun ==
    login_pc = "crawl" => logged_in

\* C14: cookies.json changes only in a login() whose logged-in state was
\* confirmed, and then to the storage state of that login, which the portal
\* honours at that moment.
StateFileOnlyAfterVerifiedLogin ==
    [][state_file' # state_file =>
          /\ login_pc \in {"first_login", "relogin"}
          /\ logged_in'
          /\ state_file' = session'
          /\ session' \in valid'
      ]_vars

StateFileOverwritten ==
    /\ state_file = 2
    /\ login_pc = "crawl"
    /\ logged_in

\* C15: the viewer tab of the real-estate extractor is open only between its
\* opening in parse_realestate_data and that call's exit: no tab is open when a
\* row is considered, a record appended or a status marked.
ViewerTabClosedOnExit ==
    popup => pc = "capture"

ViewerFailedTabClosed ==
    /\ pc = "append"
    /\ data.ViewerURL = "viewer"
    /\ data.PDF = ""
    /\ ~popup
    /\ browser = "open"

\* C16: in the lien extractor the viewer tab opened by parse_rp_detail is closed
\* on every exit path: outside the viewer step of one document no tab is open.
LienViewerTabClosedOnExit ==
    l_pc # "rp_popup" => l_popups = 0

\* C17: no document page is opened for extraction until discovery has finished
\* for all result rows and the discovered URLs are in the checkpoint list.
ExtractionAfterDiscovery ==
    /\ pc \in {"parse", "capture"} => csv_path # 0
    /\ l_pc \in {"rp_parse", "rp_popup"} => row_index >= total_rows

\* C18: every document link of every page of a row's detail view is collected:
\* the loop over one page's links ends only when all of its links were taken.
EveryLinkOfThePageCollected ==
    (l_caller = "gsr" /\ l_pc = "rp_next" /\ rp_i = LinkLimit) => rp_links <= LinkLimit

\* C19: an error while handling one row skips that row only: a row loop that
\* ended without a cancellation has handled every row of the results table.
RowErrorSkipsOnlyThatRow ==
    (l_pc = "final_stop" /\ ~l_stopped) => row_index >= total_rows

\* C20: the stop flag is keyed per crawl type: a crawl observes a cancellation
\* only if the flag of its own type is raised, whatever the other flag is.
FlagsKeyedPerCrawl ==
    /\ l_stopped => lien_stop_flag
    /\ obs.stopped # "no" => stop_flag

LienRunIgnoresRealEstateFlag ==
    /\ l_pc = "ended"
    /\ stop_flag
    /\ ~lien_stop_flag
    /\ ~l_stopped
    /\ l_xlsx.exists
    /\ l_xlsx.records = 2

\* C21: a document page without the viewer-parameter script opens no secondary
\* tab and its record goes to the workbook with the viewer URL, the PDF and the
\* OCR fields all empty.
NoViewerRecordHasEmptyImageFields ==
    (pc = "append" /\ data.ViewerURL # "viewer") =>
        /\ ~popup
        /\ data.ViewerURL = ""
        /\ data.PDF = ""
        /\ data.Fields = ""

\* C22: when OCR raises or recognises nothing for a captured image, extraction
\* still returns the record to the saving step with every field parsed from the
\* page unchanged (real-estate: the row's URL and indices and the viewer URL;
\* lien: the record is kept in self.results).
OcrFailureKeepsStructuralFields ==
    [][/\ (pc = "capture" /\ data'.PDF = "pdf" /\ data'.Fields = "") =>
            /\ pc' = "append"
            /\ data' = [BaseData(df_urls[idx]) EXCEPT !.ViewerURL = "viewer", !.PDF = "pdf"]
            /\ data'.SourceURL = data.SourceURL
            /\ data'.ViewerURL = data.ViewerURL
       /\ (l_pc = "rp_popup" /\ l_pc' # "rp_popup") =>
            /\ l_pc' = "rp_back"
            /\ l_results' = l_results + 1]_vars

OcrFailedRecordSaved ==
    /\ pc = "mark"
    /\ data.PDF = "pdf"
    /\ data.Fields = ""
    /\ Len(xlsx_file.rows) >= 1
    /\ xlsx_file.rows[Len(xlsx_file.rows)] = RowVals(data)
    /\ data.SourceURL = df_urls[idx].url

\* C23: two distinct documents of a run never map to the same PDF path: the PDF
\* of every document processed so far is still the file under its name.
EveryDocumentKeepsItsPdf ==
    call = "pdf_name" =>
        \A i \in 1..Len(given) : <<PdfName(given[i].debtor, given[i].page), i>> \in got

\* C24: the checkpoint never holds two rows with the same URL; of the rows
\* discovered with one URL the first is the one written, and every written row
\* keeps the 1-based entity and document index it got at discovery, also when
\* the checkpoint is rewritten later.
CheckpointKeepsFirstDiscovered ==
    [][(csv_file'.exists /\ csv_file'.ok) =>
         LET rows == csv_file'.rows IN
         /\ \A i, j \in 1..Len(rows) : i # j => rows[i].url # rows[j].url
         /\ \A i \in 1..Len(rows) : rows[i].entity_index >= 1 /\ rows[i].doc_index >= 1
         /\ (pc = "gsr_loop" /\ csv_file' # csv_file) =>
              \A k \in 1..Len(results_df) :
                  (\A m \in 1..(k - 1) : results_df[m].url # results_df[k].url)
                  <=> (\E i \in 1..Len(rows) :
                          /\ rows[i].url = results_df[k].url
                          /\ rows[i].entity_index = results_df[k].entity_index
                          /\ rows[i].doc_index = results_df[k].doc_index)
         /\ (pc \notin {"gsr_loop", "gsr_begin"} /\ csv_file.exists /\ csv_file.ok) =>
              /\ Len(rows) = Len(csv_file.rows)
              /\ \A i \in 1..Len(rows) :
                     /\ rows[i].url = csv_file.rows[i].url
                     /\ rows[i].entity_index = csv_file.rows[i].entity_index
                     /\ rows[i].doc_index = csv_file.rows[i].doc_index]_vars

RediscoveredUrlWrittenOnce ==
    /\ pc = "pru_start"
    /\ csv_file.exists
    /\ Len(results_df) = 3
    /\ Len(csv_file.rows) = 2
    /\ results_df[3].url = results_df[1].url
    /\ csv_file.rows[1].entity_index = 1
    /\ csv_file.rows[2].doc_index = 2

\* C25: a checkpoint row is passed over without being processed only if its
\* status is Done; a row with any other status is processed.
OnlyDoneRowsArePassedOver ==
    [][(pc = "row" /\ idx' = idx + 1 /\ obs'.navs = obs.navs) =>
           df_urls[idx].status = "Done"]_vars

\* C26: for a text with one amount on a TOTAL DUE line and another on a line
\* with TAX alone, extract_amounts ranks the TOTAL DUE amount first, whatever
\* the two amounts and the order of the lines.
TotalDueRanksFirst ==
    (call = "extract_amounts" /\ got # <<>>) => got[1].line = "TOTAL DUE"

\* C27: for a text with no TOTAL DUE line in which component amounts are found,
\* total-due extraction returns the sum of the charges minus the PAYMENT(S)
\* amount, to two decimals.
FallbackTotalIsSumMinusPayments ==
    (/\ call \in {"scraper.extract_total_due", "lien.extract_total_due"}
     /\ got # <<>>
     /\ given.TOTAL_DUE < 0
     /\ \E key \in ChargeKeys \cup {"PAYMENT"} : AmountOf(given, key) >= 0)
    => got[1] = TwoDecimals(SumCharges(given, ChargeKeys)
                            - (IF given.PAYMENT >= 0 THEN given.PAYMENT ELSE 0))

BackFallbackInOrder ==
    call \in {"back.row", "back.button", "back.history", "back.url", "back.search", "back.end"} =>
        /\ \A i, j \in 1..Len(got.tried) :
              /\ (got.tried[i] = "bBack" /\ i # j) => i < j
              /\ (got.tried[i] = "go_back" /\ got.tried[j] \in {"goto", "search"}) => i < j
        /\ (\E i \in 1..Len(got.tried) : got.tried[i] = "search") =>
              \E i \in 1..Len(got.tried) : got.tried[i] = "go_back"
        /\ (call = "back.row" /\ got.row > 0) =>
              /\ got.page = 0
              /\ got.skipped = {}

\* C30: the pass over the table region runs only when the full-image text is
\* missing the total (TOTAL with a decimal amount) or the description, and
\* Paddle is invoked only when the Tesseract passes over the region left one of
\* the missing markers unrecovered.
EscalationOnlyWhenMarkerMissing ==
    call \in {"ocr.full", "ocr.roi", "ocr.paddle", "ocr.end"} =>
        LET Ran(e) == \E i \in 1..Len(got.ran) : got.ran[i] = e
            total_missing == \A i \in 1..Len(given) :
                                ~ /\ HasTotal(given[i])
                                  /\ \/ given[i] = "TOTAL 5.00"
                                     \/ \E j \in (i + 1)..Len(given) : HasDecimal(given[j])
            desc_missing == \A i \in 1..Len(given) : given[i] # "DESCRIPTION"
        IN /\ (Ran("tesseract_roi") \/ call \in {"ocr.roi", "ocr.paddle"})
                  => (total_missing \/ desc_missing)
           /\ (Ran("paddle_roi") \/ call = "ocr.paddle")
                  => \/ total_missing /\ ~TotalDecimalIn(got.tess)
                     \/ desc_missing /\ ~DescriptionIn(got.tess)
           /\ Ran("paddle_roi") => Ran("tesseract_roi")

PaddleAfterTesseractFellShort ==
    /\ call = "ocr.end"
    /\ got.ran = <<"tesseract_full", "tesseract_roi", "paddle_roi">>
    /\ given = <<"DESCRIPTION">>
    /\ got.pass = RoiPasses
    /\ got.tess = <<"$5.00", "TOTAL">>
    /\ got.text = <<"DESCRIPTION", "$5.00", "TOTAL", "TOTAL 5.00">>

\* C31: when a navigation landed on the announcement page, the page is
\* dismissed, the original navigation is issued again, and the step that
\* follows runs on the page that was requested.
StepRunsOnRequestedPage ==
    call \in {"nav.goto", "nav.check", "nav.step", "nav.end"} =>
        \A i \in 1..Len(got.steps) :
            got.steps[i].landed = "Announcement.asp" =>
                /\ got.steps[i].page = got.steps[i].want
                /\ got.steps[i].gotos = 2

\* C32: above a state+ZIP line the walk takes at most three lines and stops at
\* the first one that lies further above than the gap allowed or that holds a
\* non-address keyword; the block is the lines taken before the stop followed
\* by the state+ZIP line.  (Stated for a state+ZIP line with no other such
\* line among the lines the walk can reach.)
BlockIsLinesBeforeTheStop ==
    (call = "address_walk" /\ got # <<>>) =>
        \A i \in 1..Len(given) :
            LET Text(k) == given[k].text
                \* the non-blank lines above i, nearest first
                above == SelectSeq([k \in 1..(i - 1) |-> i - k], LAMBDA k : Text(k) # "")
                GapOver(n) ==
                    BoxTop(given, IF n = 1 THEN i ELSE above[n - 1]) - BoxBottom(given, above[n])
                    > (5 * given[i].h) \div 2
                Stops(n) == GapOver(n) \/ Text(above[n]) = "County Tax Office"
                reach == IF Len(above) < 3 THEN Len(above) ELSE 3
                taken == {n \in 1..reach : \A m \in 1..n : ~Stops(m)}
                expected == [k \in 1..Cardinality(taken) |-> Text(above[Cardinality(taken) + 1 - k])]
                                \o <<Text(i)>>
            IN (/\ Text(i) = "Atlanta GA 30301"
                /\ \A n \in 1..reach : Text(above[n]) # "Atlanta GA 30301")
               => \E b \in 1..Len(got[1]) : got[1][b] = expected

\* C33: once a stop_check inside parse_realestate_data has seen the flag (it
\* closed the browser while the row's document was being extracted), nothing
\* is appended to the workbook for that document and the checkpoint file is
\* not rewritten, so the row stays pending.
StopDuringExtractionLeavesRowPending ==
    [][(/\ pc \in {"append", "append_save", "append_replace", "mark"}
        /\ stop_flag
        /\ browser = "closed")
       => (xlsx_file' = xlsx_file /\ csv_file' = csv_file)]_vars

\* C34: the workbook never holds two records of the same checkpoint row (the
\* rows of a checkpoint have distinct URLs), also after a run that died between
\* the append and the Done mark was followed by another run over the checkpoint.
AtMostOneRecordPerRow ==
    (xlsx_file.exists /\ xlsx_file.ok) =>
        \A i, j \in 1..Len(xlsx_file.rows) :
            i # j => xlsx_file.rows[i][5] # xlsx_file.rows[j][5]

\* C35: when page.goto raises for a row, or an operation of the parse raises
\* (page.content(): the record in hand is then the bare row, with no viewer
\* URL), the checkpoint file and the workbook are left as they are, no status
\* changes, and the loop is at the next row.
RowErrorLeavesRowPending ==
    [][/\ (/\ pc = "row" /\ idx <= Len(df_urls) /\ ~stop_flag
           /\ StripLower(df_urls[idx].status) # "done"
           /\ obs'.navs = obs.navs + 1
           /\ pc' = "row")
          => /\ idx' = idx + 1
             /\ df_urls' = df_urls
             /\ csv_file' = csv_file
             /\ xlsx_file' = xlsx_file
       /\ (/\ pc \in {"append", "append_save", "append_replace", "mark"}
           /\ idx <= Len(df_urls) /\ data = BaseData(df_urls[idx])
           /\ pc' \notin {"crashed", "pru_start"})
          => /\ df_urls' = df_urls
             /\ csv_file' = csv_file
             /\ xlsx_file' = xlsx_file]_vars

\* C36: a stop request ends with the run it stopped: when a real-estate crawl
\* is started after a run that a stop_check ended, no stop request is standing,
\* so that only a request made from then on can stop the new crawl.
NewRunStartsWithoutStopRequest ==
    [][(pc = "ended" /\ obs.stopped # "no" /\ pc' = "precheck") => ~stop_flag']_vars

\* C37: in a real-estate run browser.close() and playwright.stop() are each
\* called at most once, and no page or tab operation is issued once the
\* browser is closed.
BrowserTornDownOnce ==
    call \in {"td.pre", "td.gsr", "td.row", "td.parse", "td.capture", "td.finally", "td.end"} =>
        /\ got.closes <= 1
        /\ got.stops <= 1
        /\ got.after = 0

\* C38: a lien run that launched its browser has ended only with the browser
\* (and with it the Playwright driver) closed, whatever the exit path.
LienRunEndsWithBrowserClosed ==
    (l_pc = "ended" /\ l_browser # "none") => l_browser = "closed"

\* C39: when the OCR text of a lien document holds exactly one address (one
\* line with city, state and ZIP), the record's Address ends with that line and
\* its Zipcode is that ZIP; Address is empty only when the text holds none.
SingleAddressReachesRecord ==
    (call = "lien_address" /\ got # <<>>) =>
        LET cities == {i \in 1..Len(given) :
                          given[i] \in {"Atlanta, GA 30301", "Macon, GA 31201"}}
        IN /\ \A i \in cities :
                 cities = {i} =>
                    /\ got[1].Address # <<>>
                    /\ got[1].Address[Len(got[1].Address)] = given[i]
                    /\ got[1].Zipcode = (IF given[i] = "Atlanta, GA 30301" THEN "30301" ELSE "31201")
           /\ got[1].Address = <<>> => cities = {}

====
